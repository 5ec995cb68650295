----------------------------- MODULE FlipChain -----------------------------
(***************************************************************************)
(* What page flipping promises, without queue, events or owners: frames    *)
(* reach the screen in the order they were submitted, and the buffer that  *)
(* is drawn into is neither on the screen nor on its way there.            *)
(***************************************************************************)
EXTENDS Integers, Sequences, FiniteSets

CONSTANT N   \* the number of flip buffers

VARIABLES
  shown,     \* the buffer on the screen
  chain,     \* the submitted buffers that are not on the screen yet, in order
  draw,      \* the buffer the next frame goes to
  drawing    \* does a client hold that buffer?

vars == <<shown, chain, draw, drawing>>

Slot == 0 .. N - 1
Plus(i, k) == (i + k) % N     \* k steps round the ring
After(i) == Plus(i, 1)
InUse == {shown} \cup {chain[i] : i \in 1 .. Len(chain)}

(* The indexes stay in the ring. *)
TypeOK ==
  /\ shown \in Slot
  /\ chain \in Seq(Slot)
  /\ draw \in Slot
  /\ drawing \in BOOLEAN

Init ==
  /\ shown = 0
  /\ chain = <<>>
  /\ draw = After(0)
  /\ drawing = FALSE

Acquire ==
  /\ draw \notin InUse
  /\ drawing' = TRUE
  /\ UNCHANGED <<shown, chain, draw>>

GiveUp ==
  /\ drawing' = FALSE
  /\ UNCHANGED <<shown, chain, draw>>

(* A client on a private buffer may move in and submit in one step. *)
SubmitFrame ==
  /\ draw \notin InUse
  /\ chain' = Append(chain, draw)
  /\ draw' = After(draw)
  /\ drawing' = FALSE
  /\ UNCHANGED shown

Show ==
  /\ chain # <<>>
  /\ shown' = Head(chain)
  /\ chain' = Tail(chain)
  /\ UNCHANGED <<draw, drawing>>

(* The framebuffer is reallocated: every frame in flight is dropped. *)
Reset ==
  /\ shown' = 0
  /\ chain' = <<>>
  /\ draw' = After(0)
  /\ drawing' = FALSE

Next == Acquire \/ GiveUp \/ SubmitFrame \/ Show \/ Reset

Spec == Init /\ [][Next]_vars

-----------------------------------------------------------------------------
(***************************************************************************)
(* The chain is the arc of the ring that follows the buffer on the screen, *)
(* and the buffer to draw comes right after it.                            *)
(***************************************************************************)
Step(k) == Plus(shown, k)

ChainIsArc ==
  /\ Len(chain) <= N - 1
  /\ \A i \in 1 .. Len(chain) : chain[i] = Step(i)
  /\ draw = Step(Len(chain) + 1)

(* No frame is drawn over one that is shown or waits to be shown. *)
DrawIsFree == drawing => draw \notin InUse
=============================================================================
