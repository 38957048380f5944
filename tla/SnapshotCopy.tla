---------------------------- MODULE SnapshotCopy ----------------------------
(***************************************************************************)
(* What rsqlite-rsync promises of a sync command, with no protocol in it:  *)
(* while writers go on changing the source, an image of it is taken, pages *)
(* of the image are copied to the target, and the command succeeds only    *)
(* when the target is that image.  A command may fail at any moment and be *)
(* run again.                                                              *)
(***************************************************************************)
EXTENDS Integers

CONSTANTS Content, MaxPages

VARIABLES source, image, target, status

vars == <<source, image, target, status>>

DB == UNION {[1..n -> Content] : n \in 0..MaxPages}

Init ==
  /\ source \in DB
  /\ target \in DB
  /\ image \in DB
  /\ status = "idle"

Write == source' \in DB /\ UNCHANGED <<image, target, status>>

Begin ==
  /\ status = "idle"
  /\ status' = "copying"
  /\ image' = source
  /\ UNCHANGED <<source, target>>

CopyPages ==
  /\ status = "copying"
  /\ DOMAIN target \subseteq DOMAIN target'
  /\ \A p \in DOMAIN target' :
       \/ p \in DOMAIN target /\ target'[p] = target[p]
       \/ p \in DOMAIN image /\ target'[p] = image[p]
  /\ UNCHANGED <<source, image, status>>

Finish ==
  /\ status = "copying"
  /\ target = image
  /\ status' = "done"
  /\ UNCHANGED <<source, image, target>>

Fail ==
  /\ status \in {"idle", "copying"}
  /\ status' = "failed"
  /\ UNCHANGED <<source, image, target>>

Again ==
  /\ status \in {"done", "failed"}
  /\ status' = "idle"
  /\ UNCHANGED <<source, image, target>>

Next == Write \/ Begin \/ CopyPages \/ Finish \/ Fail \/ Again

Spec == Init /\ [][Next]_vars
=============================================================================
