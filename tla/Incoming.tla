------------------------------- MODULE Incoming -------------------------------
(***************************************************************************)
(* The messages of a user, InboundIntake, as one of the two ways into the  *)
(* bridge; the other one is SystemTurns.  Both have flushes and faults.    *)
(* Those of the intake have names of their own here, so that one module,   *)
(* IncomingProofs, can speak of both.                                      *)
(***************************************************************************)
EXTENDS Naturals

CONSTANTS
  NMsg, MaxSize, NFlush, MaxBatch,  \* the bounds of InboundIntake
  MaxMishaps                        \* and its bound on faults

VARIABLES
  kind, cursor, claims, seen, main, rest, batch, draft, held,
  flushing,                         \* its flushes under way
  poll, saved, routed, lost, split, failed,
  mishaps                           \* and its faults

Intake == INSTANCE InboundIntake
            WITH flush <- flushing, faults <- mishaps, MaxFaults <- MaxMishaps

ASSUME IntakeBounds == Intake!IntakeAssumption

IntakeSpec == Intake!Spec
IntakeFairSpec == Intake!FairSpec

-----------------------------------------------------------------------------
\* Nothing is lost or sent twice on the way through the batch, however often it is
\* split and taken by two flushes at once, and a text and an attachment of one poll
\* reach the runtime in one turn (flushPendingAttachmentInboundBatch in app.js).
BatchKept == Intake!BatchKept

\* A message that a poll brought does not wait in the batch for ever: the timer that
\* an intake or a poll batch holds back is always set again (endPendingAttachmentIntake
\* and endInboundUpdateBatch in app.js).
IntakeSettles == Intake!IntakeSettles
=============================================================================
