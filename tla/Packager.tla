------------------------------- MODULE Packager -------------------------------
(***************************************************************************)
(* What package_constructor.vhd promises, without its state machine: bits  *)
(* are taken one by one, a package leaves when it is full or the command   *)
(* has ended, and the end of the command is a package without bits.        *)
(***************************************************************************)
EXTENDS Package

VARIABLES rst, data_ready, data_in, eop,  \* what the decoder and the host drive
          pending,                        \* bits of the open package
          port,                           \* <<>>, or <<bits>> while a package is written
          phase                           \* "open", "owed" (a bit is due) or "ending"

Init == pending = <<>> /\ port = <<>> /\ phase = "open"

AnnounceBit ==
  /\ rst = 0 /\ phase = "open" /\ data_ready = 1
  /\ phase' = "owed" /\ port' = <<>> /\ UNCHANGED pending

AcceptBit ==
  /\ rst = 0 /\ phase = "owed" /\ Len(pending) < data_width
  /\ pending' = Append(pending, data_in)
  /\ phase' = "open" /\ UNCHANGED port

\* A full package leaves; at the end of a command, so does one with some bits.
WritePackage ==
  /\ rst = 0 /\ phase = "open" /\ pending # <<>>
  /\ Len(pending) = data_width \/ eop = 1
  /\ port' = <<pending>> /\ pending' = <<>> /\ UNCHANGED phase

NoticeEnd ==
  /\ rst = 0 /\ phase = "open" /\ pending = <<>> /\ eop = 1
  /\ phase' = "ending" /\ UNCHANGED <<pending, port>>

WriteVoid ==
  /\ rst = 0 /\ phase = "ending"
  /\ port' = << <<>> >> /\ phase' = "open" /\ UNCHANGED pending

EndWrite == rst = 0 /\ port' = <<>> /\ UNCHANGED <<pending, phase>>

\* The reset forgets the open package but not a write in progress, which
\* becomes the write of a void package and lasts as long as the reset.
Reset ==
  /\ rst = 1
  /\ pending' = <<>> /\ phase' = "open"
  /\ port' = IF port = <<>> THEN <<>> ELSE << <<>> >>

Next ==
  \/ AnnounceBit \/ AcceptBit \/ WritePackage
  \/ NoticeEnd \/ WriteVoid \/ EndWrite \/ Reset

Spec == Init /\ [][Next]_<<pending, port, phase>>
=============================================================================
