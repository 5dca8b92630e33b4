---------------------------- MODULE MCLogoStore ----------------------------
(* One client, two users.  The requests are chosen for the ways they can   *)
(* meet: the same submission, and so the same file name, with other bytes, *)
(* the same bytes under another submission, a replacement of what is being *)
(* created or was imported, archiving and restoring it.  The last archives *)
(* what was uploaded, so that the upload can be sent again afterwards.     *)
EXTENDS LogoStore

CONSTANTS s1, s2, s3, s4, c1, c2, a1, a2, w1, w2

MCSubmission == {s1, s2, s3, s4}

UploadOf(actor, action, s, expected, c) ==
    [actor |-> actor, action |-> action, submission |-> s, expected |-> expected,
     clientVersion |-> 1, target |-> None, content |-> c]
LifecycleOf(action, s, expected, v) ==
    [actor |-> a1, action |-> action, submission |-> s, expected |-> expected,
     clientVersion |-> 1, target |-> v, content |-> None]

MCContent == {c1, c2}
MCExtension == [c \in MCContent |-> "png"]
MCRequests ==
    {UploadOf(a1, "create", s1, 0, c1),
     UploadOf(a2, "create", s1, 0, c2),
     UploadOf(a2, "update", s2, 1, c1),
     LifecycleOf("archive", s3, 1, Import),
     LifecycleOf("restore", s4, 2, Import),
     LifecycleOf("archive", s3, 2, s2)}
=============================================================================
