---------------------------- MODULE MCFileApps ------------------------------
(* A disk of three slots, one taken by an image that is longer than the    *)
(* editor's buffer; one name longer than a slot keeps.                     *)
EXTENDS FileApps

MCNames == {"sunset.bmp", "new.txt", "name31", "name40"}
MCTrunc == [n \in MCNames |-> IF n = "name40" THEN "name31" ELSE n]
MCByte == {0, 1}
MCInitialFiles == <<[name |-> "sunset.bmp", data |-> <<0, 0>>]>>
MCTexts == {<<1>>}
MCWelcome == <<1>>

(* What is left in a slot that is not in use is read by no operation:      *)
(* states that differ only there are taken as one.                         *)
LiveState == <<[i \in Slots |-> IF files[i].used THEN files[i] ELSE {}], editor, current_image>>
=============================================================================
