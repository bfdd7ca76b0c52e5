---------------------------- MODULE FileTransfer ----------------------------
(***************************************************************************)
(* What one TFTP read transfer promises, whatever the network does: the    *)
(* client receives the file's blocks in order, each once, and the server   *)
(* reports the boot as Completed only when the client holds all of them.   *)
(* The server may give up at any time, and must finish one way or another. *)
(* TftpTransfer is shown to implement this specification.                  *)
(***************************************************************************)
EXTENDS Naturals, Sequences

CONSTANT NBlocks        \* blocks of the file, the short terminating one included

VARIABLES
    delivered,          \* the blocks the client has accepted, in order
    outcome             \* what the server has reported of the transfer

ftvars == <<delivered, outcome>>

Init ==
    /\ delivered = <<>>
    /\ outcome = "running"

(* Packets already under way may reach the client after the server stopped. *)
Deliver ==
    /\ Len(delivered) < NBlocks
    /\ delivered' = Append(delivered, Len(delivered) + 1)
    /\ UNCHANGED outcome

(* "Unreported" is a transfer that ended and left the host's status alone. *)
Finish ==
    /\ outcome = "running"
    /\ outcome' \in {"Completed", "Failed", "Unreported"}
    /\ outcome' = "Completed" => Len(delivered) = NBlocks
    /\ UNCHANGED delivered

Next == Deliver \/ Finish

Safe == Init /\ [][Next]_ftvars

Spec == Safe /\ WF_ftvars(Finish)
=============================================================================
