---------------------------- MODULE DecodeSession ----------------------------
(***************************************************************************)
(* What a decoder promises its application, whatever threads and locks it  *)
(* is built from: accepted packets are output before the end of the stream *)
(* is reported, nothing is output after that report, and the decoder is    *)
(* gone only after it.  An abort gives up the packets still inside, all    *)
(* but one that is just being output and may come late, and it is reported *)
(* like an end of stream.                                                  *)
(***************************************************************************)
EXTENDS Naturals

VARIABLES
  phase,    (* where the session stands, one of Phases                     *)
  inside    (* packets accepted and not yet output                         *)

session == <<phase, inside>>

Phases == {"new", "open", "sealed", "aborted", "ended", "closed", "dead"}

Init == phase = "new" /\ inside = 0

Open == /\ phase = "new"
        /\ phase' = "open"
        /\ UNCHANGED inside

Accept == /\ phase = "open"
          /\ inside' = inside + 1
          /\ UNCHANGED phase

(* A packet, or frame, that ends the stream. *)
AcceptLast == /\ phase = "open"
              /\ inside' = inside + 1
              /\ phase' = "sealed"

(* After an abort, only the packet that was being output still comes. *)
Output == /\ phase \in {"open", "sealed", "aborted", "ended"}
          /\ inside > 0
          /\ inside' = inside - 1
          /\ UNCHANGED phase

(* The end of the stream is queued behind the packets accepted so far. *)
Seal == /\ phase = "open"
        /\ phase' = "sealed"
        /\ UNCHANGED inside

(* The application is told that the stream has ended: nothing is left inside. *)
End == /\ phase = "sealed"
       /\ inside = 0
       /\ phase' = "ended"
       /\ UNCHANGED inside

Abort == /\ phase \in {"open", "sealed", "ended"}
         /\ phase' = IF phase = "ended" THEN "ended" ELSE "aborted"
         /\ inside' \in {0, 1} /\ inside' <= inside

ReportAbort == /\ phase = "aborted"
               /\ phase' = "ended"
               /\ UNCHANGED inside

(* A session closes after its end was reported, or if it never opened. *)
Close == /\ phase \in {"new", "ended"}
         /\ phase' = "closed"
         /\ UNCHANGED inside

(* The process dies with a session that is open or not yet closed, whether *)
(* or not its end was reported.                                            *)
Die == /\ phase \in {"open", "sealed", "aborted", "ended"}
       /\ phase' = "dead"
       /\ UNCHANGED inside

Next == \/ Open \/ Accept \/ AcceptLast \/ Output \/ Seal \/ End
        \/ Abort \/ ReportAbort \/ Close \/ Die

Spec == Init /\ [][Next]_session
=============================================================================
