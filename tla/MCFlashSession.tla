---------------------------- MODULE MCFlashSession ----------------------------
(* Discs for FlashSession. *)
EXTENDS FlashSession

CONSTANTS small, big, odd, blank

\* An image for the 256 KB banks, one for the 512 KB bank, a file of another
\* size and a disc without the file.
MCFile ==
    [d \in Discs |->
        IF d = small THEN [size |-> 1, odd |-> FALSE]
        ELSE IF d = big THEN [size |-> 2, odd |-> FALSE]
        ELSE IF d = odd THEN [size |-> 3, odd |-> TRUE]
        ELSE NoFile]
=============================================================================
