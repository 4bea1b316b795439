------------------------------ MODULE CString -------------------------------
(***************************************************************************)
(* The string functions of kernel/string.c, by what they return and leave  *)
(* in memory.  A buffer is a function from addresses 0, 1, ... to          *)
(* characters, a string that is only read is the sequence of its           *)
(* characters without the terminating zero.                                *)
(***************************************************************************)
EXTENDS Integers, Sequences, FiniteSetsExt

NUL == 0
NULL == -1     \* the null pointer

(* Where a loop that starts at address p stops: at the first character of  *)
(* stops, or at the first one that is not among skipped.                   *)
Find(m, p, stops) == Min({i \in DOMAIN m : i >= p /\ m[i] \in stops})
Skip(m, p, skipped) == Min({i \in DOMAIN m : i >= p /\ m[i] \notin skipped})

strlen(m, p) == Find(m, p, {NUL}) - p
Text(m, p) == [i \in 1 .. strlen(m, p) |-> m[p + i - 1]]

(* Character i, from 0, of a string, the terminating zero included.        *)
At(s, i) == IF i < Len(s) THEN s[i + 1] ELSE NUL

strncpy(dest, src, n) == [i \in DOMAIN dest |-> IF i < n THEN At(src, i) ELSE dest[i]]

(* Both comparisons stop at the end of s1 or at the first difference,      *)
(* strncmp after n characters too.                                         *)
strcmp(s1, s2) ==
  LET i == Min({k \in 0 .. Len(s1) : At(s1, k) = NUL \/ At(s1, k) # At(s2, k)})
  IN At(s1, i) - At(s2, i)

strncmp(s1, s2, n) ==
  LET i == Min({n} \cup {k \in 0 .. Len(s1) : At(s1, k) = NUL \/ At(s1, k) # At(s2, k)})
  IN IF i = n THEN 0 ELSE At(s1, i) - At(s2, i)

(* strtok keeps its place in last_strtok; it returns the address of the    *)
(* token and cuts the buffer behind it.                                    *)
Tok(ret, last, m) == [ret |-> ret, last |-> last, mem |-> m]

strtok_KeepsLast(m, last, s, delim) ==
  LET p == IF s = NULL THEN last ELSE s
      start == Skip(m, p, delim)
      end == Find(m, start, {NUL} \cup delim)
  IN IF p = NULL THEN Tok(NULL, last, m)
     ELSE IF m[start] = NUL THEN Tok(NULL, NULL, m)
     ELSE IF m[end] = NUL THEN Tok(start, last, m)
     ELSE Tok(start, end + 1, [m EXCEPT ![end] = NUL])

strtok(m, last, s, delim) ==
  LET p == IF s = NULL THEN last ELSE s
      start == Skip(m, p, delim)
      end == Find(m, start, {NUL} \cup delim)
  IN IF p = NULL THEN Tok(NULL, last, m)
     ELSE IF m[start] = NUL THEN Tok(NULL, NULL, m)
     ELSE IF m[end] = NUL THEN Tok(start, NULL, m)
     ELSE Tok(start, end + 1, [m EXCEPT ![end] = NUL])
=============================================================================
