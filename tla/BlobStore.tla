------------------------------ MODULE BlobStore ------------------------------
(***************************************************************************)
(* What the flash under a blob promises: a boot finds the blob that was    *)
(* written last, or finds nothing once a write was cut short.  It never    *)
(* finds part of one blob and part of another, and a blob nobody is        *)
(* replacing stays as it is.                                               *)
(***************************************************************************)
CONSTANTS Blobs, NoBlob

VARIABLES stored,      \* what a boot would find
          replacing    \* the blob that is being written over it

Init == stored \in Blobs \cup {NoBlob} /\ replacing = NoBlob

Begin == /\ replacing = NoBlob
         /\ replacing' \in Blobs
         /\ UNCHANGED stored

Erase == /\ replacing # NoBlob
         /\ stored' = NoBlob
         /\ replacing' \in {replacing, NoBlob}

Land == /\ replacing # NoBlob
        /\ stored' = replacing
        /\ replacing' \in {replacing, NoBlob}

End == /\ replacing' = NoBlob
       /\ UNCHANGED stored

Next == Begin \/ Erase \/ Land \/ End

Spec == Init /\ [][Next]_<<stored, replacing>>
=============================================================================
