----------------------------- MODULE EntryProofs -----------------------------
(***************************************************************************)
(* Theorems of Entry, for interrupts nested to any depth.                  *)
(***************************************************************************)
EXTENDS Entry, TLAPS

USE DEF User, Open, Closed, Value

LEMMA PopFacts ==
    ASSUME NEW S, NEW s \in Seq(S), s # <<>>
    PROVE  /\ Pop(s) \in Seq(S)
           /\ Len(s) \in Nat \ {0}
           /\ Len(Pop(s)) = Len(s) - 1
           /\ \A k \in 1 .. Len(s) - 1 : Pop(s)[k] = s[k]
           /\ Top(s) \in S
<1>1. Len(s) \in Nat \ {0} /\ \A k \in 1 .. Len(s) : s[k] \in S
  OBVIOUS
<1>2. Pop(s) = [k \in 1 .. Len(s) - 1 |-> s[k]]
  BY <1>1 DEF Pop
<1>3. \A k \in 1 .. Len(s) - 1 : s[k] \in S
  BY <1>1
<1>4. Pop(s) \in Seq(S) /\ Len(Pop(s)) = Len(s) - 1
  BY <1>1, <1>2, <1>3
<1> QED
  BY <1>1, <1>2, <1>4 DEF Top

LEMMA AppendFacts ==
    ASSUME NEW S, NEW s \in Seq(S), NEW e \in S
    PROVE  /\ Append(s, e) \in Seq(S)
           /\ Len(s) \in Nat
           /\ Len(Append(s, e)) = Len(s) + 1
           /\ \A k \in 1 .. Len(s) : Append(s, e)[k] = s[k]
           /\ Append(s, e)[Len(s) + 1] = e
           /\ Append(s, e) # <<>>
           /\ Top(Append(s, e)) = e
BY DEF Top

-----------------------------------------------------------------------------
(* The inductive invariant.                                                *)

\* The registers of a call, as far as the code at `place' relies on them.
Right(place, value) ==
    /\ place \in {"call", "el0_svc", "sys"} => value = "arguments"
    /\ place \in {"back", "sys_done", "store"} => value = "result"

\* From a vector to the save of kernel_entry, and from the load of
\* kernel_exit to the eret, an exception is in the registers only.
Bare == pc \in {"el0_sync", "el_irq", "eret"}

\* Where the code that serves the k-th exception stands: below the top,
\* where the next exception has interrupted it.
Inside(k) == IF k < Len(from) THEN from[k + 1] ELSE pc

\* The places at which the result of a call is not in its frame yet.
InCall == {"el0_svc", "sys", "sys_done", "store"}

\* The frame of an exception leads back to where it was taken, with what the
\* code there needs.
FrameRight(k) ==
    /\ frames[k].elr = from[k]
    /\ frames[k].spsr = TRUE
    /\ IF Inside(k) \in InCall THEN from[k] = "back"
       ELSE Right(from[k], frames[k].x0)

\* The first exception is taken from the program, those on top of it from
\* the kernel where interrupts are enabled.
Nested ==
    /\ pc \in User => from = <<>>
    /\ pc \notin User => from # <<>>
    /\ \A k \in 1 .. Len(from) : from[k] \in IF k = 1 THEN User ELSE Open
    /\ Len(from) = IF Bare THEN Len(frames) + 1 ELSE Len(frames)

Saved == \A k \in 1 .. Len(frames) : FrameRight(k)

Live ==
    /\ irq = TRUE <=> pc \in User \cup Open
    /\ Right(pc, x0)
    /\ Bare => elr = Top(from) /\ spsr = TRUE
    /\ pc = "el0_sync" => \/ elr = "start"
                          \/ elr = "back" /\ x0 = "arguments"
    /\ pc \in {"el_irq", "eret"} => Right(elr, x0)

EntryInv == CpuTypeOK /\ Nested /\ Saved /\ Live

LEMMA EntryInit == CpuInit => EntryInv
<1> SUFFICES ASSUME CpuInit PROVE EntryInv
  OBVIOUS
<1>1. CpuTypeOK
  <2>1. <<"start">> \in Seq(Place)
    BY DEF Place
  <2>2. [x0 |-> "other", elr |-> "start", spsr |-> TRUE] \in Frame
    BY DEF Frame, Place
  <2>3. <<[x0 |-> "other", elr |-> "start", spsr |-> TRUE]>> \in Seq(Frame)
    BY <2>2
  <2> QED
    BY <2>1, <2>3 DEF CpuInit, CpuTypeOK, Place
<1>2. Len(from) = 1 /\ Len(frames) = 1 /\ from # <<>> /\ from[1] = "start"
      /\ frames[1] = [x0 |-> "other", elr |-> "start", spsr |-> TRUE]
  BY DEF CpuInit
<1>3. Nested
  BY <1>2 DEF CpuInit, Nested, Bare
<1>4. Live
  BY <1>2 DEF CpuInit, Live, Bare, Right
<1>5. Saved
  BY <1>2 DEF CpuInit, Saved, FrameRight, Inside, InCall, Right
<1> QED
  BY <1>1, <1>3, <1>4, <1>5 DEF EntryInv

\* An exception, from a place at which interrupts are enabled.
LEMMA ExceptionStep ==
    ASSUME EntryInv, NEW vector \in {"el0_sync", "el_irq"},
           NEW return \in User \cup Open,
           pc \in User \cup Open,
           \/ return = pc /\ (vector = "el_irq" \/ pc = "start")
           \/ return = "back" /\ vector = "el0_sync" /\ pc = "call",
           Exception(vector, return)
    PROVE  EntryInv'
<1> USE DEF EntryInv
<1>1. /\ from' = Append(from, return) /\ pc' = vector /\ frames' = frames
      /\ x0' = x0 /\ elr' = return /\ spsr' = TRUE /\ irq' = FALSE
      /\ mapped' = mapped
  BY DEF Exception, Live
<1>2. /\ from \in Seq(Place) /\ frames \in Seq(Frame) /\ return \in Place
      /\ vector \in Place /\ x0 \in Value /\ mapped \in BOOLEAN
      /\ pc \in Place
  BY DEF CpuTypeOK, Place
<1>3. /\ from' \in Seq(Place) /\ Len(from) \in Nat
      /\ Len(from') = Len(from) + 1
      /\ \A k \in 1 .. Len(from) : from'[k] = from[k]
      /\ from'[Len(from) + 1] = return
      /\ from' # <<>> /\ Top(from') = return
  BY <1>1, <1>2, AppendFacts
<1>4. Len(from) = Len(frames)
  BY DEF Nested, Bare
<1>5. CpuTypeOK'
  BY <1>1, <1>2, <1>3 DEF CpuTypeOK
<1>6. Nested'
  <2>1. return \in User => from = <<>>
    BY DEF Nested
  <2>2. return \notin User => from # <<>>
    BY DEF Nested
  <2>3. ASSUME NEW k \in 1 .. Len(from')
        PROVE  from'[k] \in IF k = 1 THEN User ELSE Open
    <3>1. CASE k \in 1 .. Len(from)
      BY <1>3, <3>1 DEF Nested
    <3>2. CASE k = Len(from) + 1
      BY <1>2, <1>3, <2>1, <2>2, <3>2
    <3> QED
      BY <1>3, <3>1, <3>2
  <2> QED
    BY <1>1, <1>3, <1>4, <2>3 DEF Nested, Bare
<1>7. Saved'
  <2> SUFFICES ASSUME NEW k \in 1 .. Len(frames) PROVE FrameRight(k)'
    BY <1>1 DEF Saved
  <2>1. FrameRight(k) /\ k \in 1 .. Len(from)
    BY <1>4 DEF Saved
  <2>2. Inside(k)' = Inside(k)
    <3>1. CASE k < Len(from)
      BY <1>3, <2>1, <3>1 DEF Inside
    <3>2. CASE k = Len(from)
      <4>1. from # <<>>
        BY <1>2, <2>1
      <4>2. return = pc
        BY <4>1 DEF Nested
      <4> QED
        BY <1>3, <2>1, <3>2, <4>2 DEF Inside
    <3> QED
      BY <1>3, <2>1, <3>1, <3>2
  <2> QED
    BY <1>1, <1>3, <2>1, <2>2 DEF FrameRight
<1>8. Right(pc, x0)
  BY DEF Live
<1>9. Live'
  <2>1. vector = "el_irq" => Right(return, x0)
    BY <1>8
  <2>2. return = "back" /\ vector = "el0_sync" => x0 = "arguments"
    BY <1>8 DEF Right
  <2>3. Right(vector, x0)
    BY DEF Right
  <2> QED
    BY <1>1, <1>3, <2>1, <2>2, <2>3 DEF Live, Right
<1> QED
  BY <1>5, <1>6, <1>7, <1>9

\* A step inside the kernel, or of the program, that leaves the frames as
\* they are.
LEMMA PlainStep ==
    ASSUME EntryInv, UNCHANGED <<from, frames>>,
           x0' \in Value, pc' \in Place, ~Bare, ~Bare',
           elr' \in Place \cup {"elsewhere"}, spsr' \in BOOLEAN,
           mapped' \in BOOLEAN,
           pc \in User <=> pc' \in User,
           pc \in InCall <=> pc' \in InCall,
           irq' \in BOOLEAN, irq' = TRUE <=> pc' \in User \cup Open,
           Right(pc', x0')
    PROVE  EntryInv'
<1> USE DEF EntryInv
<1>1. CpuTypeOK'
  BY DEF CpuTypeOK
<1>2. Nested'
  BY DEF Nested
<1>3. Saved'
  <2> SUFFICES ASSUME NEW k \in 1 .. Len(frames) PROVE FrameRight(k)'
    BY DEF Saved
  <2>1. FrameRight(k)
    BY DEF Saved
  <2>2. Inside(k)' \in InCall <=> Inside(k) \in InCall
    BY DEF Inside
  <2> QED
    BY <2>1, <2>2 DEF FrameRight
<1>4. Live'
  BY DEF Live, Bare
<1> QED
  BY <1>1, <1>2, <1>3, <1>4

\* The save of the registers on top of the frames.
LEMMA kernel_entryStep == EntryInv /\ kernel_entry => EntryInv'
<1> SUFFICES ASSUME EntryInv, kernel_entry PROVE EntryInv'
  OBVIOUS
<1> USE DEF EntryInv
<1> DEFINE frame == [x0 |-> x0, elr |-> elr, spsr |-> spsr]
<1>1. /\ pc \in {"el0_sync", "el_irq"} /\ frames' = Append(frames, frame)
      /\ pc' = IF pc = "el_irq" THEN "handle_irq"
               ELSE IF elr = "start" THEN "el0_da" ELSE "el0_svc"
      /\ UNCHANGED <<x0, elr, spsr, irq, mapped, from>>
  BY DEF kernel_entry
<1>2. /\ Bare /\ elr = Top(from) /\ spsr = TRUE
      /\ Len(from) = Len(frames) + 1 /\ from # <<>>
  BY <1>1 DEF Bare, Live, Nested
<1>3. from \in Seq(Place) /\ frames \in Seq(Frame) /\ x0 \in Value
  BY DEF CpuTypeOK
<1>4. frame \in Frame
  BY <1>2, <1>3, PopFacts DEF Frame
<1> HIDE DEF frame
<1>5. /\ frames' \in Seq(Frame) /\ Len(frames) \in Nat
      /\ Len(frames') = Len(frames) + 1
      /\ \A k \in 1 .. Len(frames) : frames'[k] = frames[k]
      /\ frames'[Len(frames) + 1] = frame
  BY <1>1, <1>3, <1>4, AppendFacts
<1>6. CpuTypeOK'
  BY <1>1, <1>5 DEF CpuTypeOK, Place
<1>7. Nested'
  BY <1>1, <1>2, <1>5 DEF Nested, Bare
<1>8. Saved'
  <2> SUFFICES ASSUME NEW k \in 1 .. Len(frames') PROVE FrameRight(k)'
    BY DEF Saved
  <2>1. CASE k \in 1 .. Len(frames)
    <3>1. FrameRight(k) /\ Inside(k)' = Inside(k)
      BY <1>1, <1>2, <1>5, <2>1 DEF Saved, Inside
    <3> QED
      BY <1>1, <1>5, <2>1, <3>1 DEF FrameRight
  <2>2. CASE k = Len(from)
    <3>1. frames'[k].x0 = x0 /\ frames'[k].elr = from[k] /\ frames'[k].spsr = TRUE
      BY <1>2, <1>5, <2>2 DEF frame, Top
    <3>2. Inside(k)' = pc'
      BY <1>1, <2>2 DEF Inside
    <3>3. CASE pc' \in InCall
      <4>1. from[k] = "back"
        BY <1>1, <1>2, <2>2, <3>3 DEF InCall, Live, Top
      <4> QED
        BY <1>1, <3>1, <3>2, <3>3, <4>1 DEF FrameRight
    <3>4. CASE pc' \notin InCall
      <4>1. Right(from[k], x0)
        BY <1>1, <1>2, <2>2, <3>4 DEF InCall, Live, Right, Top
      <4> QED
        BY <1>1, <3>1, <3>2, <3>4, <4>1 DEF FrameRight
    <3> QED
      BY <3>3, <3>4
  <2> QED
    BY <1>2, <1>5, <2>1, <2>2
<1>9. Live'
  BY <1>1, <1>2 DEF Live, Right, Bare, InCall
<1> QED
  BY <1>6, <1>7, <1>8, <1>9

\* The result of a call goes into the frame on top.
LEMMA storeStep == EntryInv /\ store => EntryInv'
<1> SUFFICES ASSUME EntryInv, store PROVE EntryInv'
  OBVIOUS
<1> USE DEF EntryInv
<1>1. /\ pc = "store" /\ pc' = "kernel_exit"
      /\ frames' = [frames EXCEPT ![Len(frames)].x0 = x0]
      /\ UNCHANGED <<x0, elr, spsr, irq, mapped, from>>
  BY DEF store, Goto
<1>2. /\ from \in Seq(Place) /\ frames \in Seq(Frame) /\ x0 \in Value
      /\ Len(from) = Len(frames) /\ from # <<>>
  BY <1>1 DEF CpuTypeOK, Nested, Bare
<1>3. Len(frames) \in Nat \ {0} /\ Top(frames) \in Frame
  BY <1>2, PopFacts
<1>4. /\ Len(frames') = Len(frames)
      /\ \A k \in 1 .. Len(frames) - 1 : frames'[k] = frames[k]
      /\ frames'[Len(frames)] = [Top(frames) EXCEPT !.x0 = x0]
  BY <1>1, <1>2, <1>3 DEF Top
<1>5. frames' \in Seq(Frame)
  <2>1. [Top(frames) EXCEPT !.x0 = x0] \in Frame
    BY <1>2, <1>3 DEF Frame
  <2> QED
    BY <1>1, <1>2, <1>3, <2>1 DEF Top
<1>6. CpuTypeOK'
  BY <1>1, <1>5 DEF CpuTypeOK, Place
<1>7. Nested'
  BY <1>1, <1>2, <1>4 DEF Nested, Bare
<1>8. Saved'
  <2> SUFFICES ASSUME NEW k \in 1 .. Len(frames) PROVE FrameRight(k)'
    BY <1>4 DEF Saved
  <2>1. FrameRight(k)
    BY DEF Saved
  <2>2. CASE k < Len(frames)
    <3>1. frames'[k] = frames[k] /\ Inside(k)' = Inside(k)
      BY <1>1, <1>2, <1>3, <1>4, <2>2 DEF Inside
    <3> QED
      BY <1>1, <2>1, <3>1 DEF FrameRight
  <2>3. CASE k = Len(frames)
    <3>1. Inside(k) = "store" /\ Inside(k)' = "kernel_exit"
      BY <1>1, <1>2, <2>3 DEF Inside
    <3>2. from[k] = "back" /\ x0 = "result"
      BY <1>1, <2>1, <3>1 DEF FrameRight, InCall, Live, Right
    <3>3. /\ frames'[k].elr = frames[k].elr
          /\ frames'[k].spsr = frames[k].spsr
          /\ frames'[k].x0 = x0
      BY <1>3, <1>4, <2>3 DEF Frame, Top
    <3> QED
      BY <1>1, <2>1, <3>1, <3>2, <3>3 DEF FrameRight, InCall, Right
  <2> QED
    BY <1>3, <2>2, <2>3
<1>9. Live'
  BY <1>1 DEF Live, Right, Bare
<1> QED
  BY <1>6, <1>7, <1>8, <1>9

\* The frame on top goes back into the registers.
LEMMA kernel_exitStep == EntryInv /\ kernel_exit => EntryInv'
<1> SUFFICES ASSUME EntryInv, kernel_exit PROVE EntryInv'
  OBVIOUS
<1> USE DEF EntryInv
<1>1. /\ pc = "kernel_exit" /\ pc' = "eret" /\ frames' = Pop(frames)
      /\ x0' = Top(frames).x0 /\ elr' = Top(frames).elr
      /\ spsr' = Top(frames).spsr /\ UNCHANGED <<irq, mapped, from>>
  BY DEF kernel_exit, Goto
<1>2. /\ from \in Seq(Place) /\ frames \in Seq(Frame)
      /\ Len(from) = Len(frames) /\ from # <<>>
  BY <1>1 DEF CpuTypeOK, Nested, Bare
<1>3. /\ frames' \in Seq(Frame) /\ Len(frames) \in Nat \ {0}
      /\ Len(frames') = Len(frames) - 1
      /\ \A k \in 1 .. Len(frames) - 1 : frames'[k] = frames[k]
      /\ Top(frames) \in Frame
  <2>1. frames # <<>>
    BY <1>2
  <2> QED
    BY <1>1, <1>2, <2>1, PopFacts
<1>4. /\ Top(frames).elr = Top(from) /\ Top(frames).spsr = TRUE
      /\ Right(Top(from), Top(frames).x0)
  <2>1. FrameRight(Len(frames)) /\ Inside(Len(frames)) = "kernel_exit"
    BY <1>1, <1>2, <1>3 DEF Saved, Inside
  <2> QED
    BY <1>2, <2>1 DEF FrameRight, InCall, Top
<1>5. CpuTypeOK'
  BY <1>1, <1>3 DEF CpuTypeOK, Place, Frame
<1>6. Nested'
  BY <1>1, <1>2, <1>3 DEF Nested, Bare
<1>7. Saved'
  <2> SUFFICES ASSUME NEW k \in 1 .. Len(frames) - 1 PROVE FrameRight(k)'
    BY <1>3 DEF Saved
  <2>1. FrameRight(k) /\ Inside(k)' = Inside(k)
    BY <1>1, <1>2, <1>3 DEF Saved, Inside
  <2> QED
    BY <1>1, <1>3, <2>1 DEF FrameRight
<1>8. Live'
  BY <1>1, <1>4 DEF Live, Right, Bare
<1> QED
  BY <1>5, <1>6, <1>7, <1>8

\* The CPU goes on where the exception was taken.
LEMMA eretStep == EntryInv /\ eret => EntryInv'
<1> SUFFICES ASSUME EntryInv, eret PROVE EntryInv'
  OBVIOUS
<1> USE DEF EntryInv
<1>1. /\ pc = "eret" /\ pc' = elr /\ irq' = spsr /\ from' = Pop(from)
      /\ UNCHANGED <<x0, elr, spsr, frames, mapped>>
  BY DEF eret
<1>2. /\ from \in Seq(Place) /\ from # <<>> /\ Len(from) = Len(frames) + 1
      /\ elr = Top(from) /\ spsr = TRUE /\ Right(elr, x0)
  BY <1>1 DEF CpuTypeOK, Nested, Bare, Live
<1>3. /\ from' \in Seq(Place) /\ Len(from) \in Nat \ {0}
      /\ Len(from') = Len(from) - 1
      /\ \A k \in 1 .. Len(from) - 1 : from'[k] = from[k]
  BY <1>1, <1>2, PopFacts
<1>4. elr = from[Len(from)]
      /\ elr \in IF Len(from) = 1 THEN User ELSE Open
  BY <1>2, <1>3 DEF Nested, Top
<1>5. CpuTypeOK'
  BY <1>1, <1>2, <1>3, <1>4 DEF CpuTypeOK, Place
<1>6. Nested'
  <2>1. elr \in User <=> from' = <<>>
    BY <1>3, <1>4
  <2>2. \A k \in 1 .. Len(from') : from'[k] \in IF k = 1 THEN User ELSE Open
    BY <1>3 DEF Nested
  <2>3. ~Bare'
    BY <1>1, <1>4 DEF Bare
  <2> QED
    BY <1>1, <1>2, <1>3, <2>1, <2>2, <2>3 DEF Nested
<1>7. Saved'
  <2> SUFFICES ASSUME NEW k \in 1 .. Len(frames) PROVE FrameRight(k)'
    BY <1>1 DEF Saved
  <2>1. FrameRight(k)
    BY DEF Saved
  <2>2. Inside(k)' = Inside(k)
    BY <1>1, <1>2, <1>3, <1>4 DEF Inside
  <2> QED
    BY <1>1, <1>2, <1>3, <2>1, <2>2 DEF FrameRight
<1>8. Live'
  BY <1>1, <1>2, <1>4 DEF Live, Bare
<1> QED
  BY <1>5, <1>6, <1>7, <1>8

LEMMA EntryStep == EntryInv /\ [CpuNext]_cpu => EntryInv'
<1> SUFFICES ASSUME EntryInv, [CpuNext]_cpu PROVE EntryInv'
  OBVIOUS
<1>0. /\ x0 \in Value /\ irq \in BOOLEAN /\ spsr \in BOOLEAN
      /\ mapped \in BOOLEAN /\ elr \in Place \cup {"elsewhere"}
      /\ irq = TRUE <=> pc \in User \cup Open
      /\ Right(pc, x0)
  BY DEF EntryInv, CpuTypeOK, Live
<1>1. CASE data_abort
  BY <1>1, ExceptionStep DEF data_abort
<1>2. CASE svc
  BY <1>2, ExceptionStep DEF svc
<1>3. CASE interrupt
  BY <1>0, <1>3, ExceptionStep DEF interrupt
<1>4. CASE kernel_entry
  BY <1>4, kernel_entryStep
<1>5. CASE enable_irq
  BY <1>0, <1>5, PlainStep DEF enable_irq, Goto, Place, Bare, InCall, Right
<1>6. CASE sys
  BY <1>0, <1>6, PlainStep DEF sys, Goto, Place, Bare, InCall, Right
<1>7. CASE do_mem_abort
  BY <1>0, <1>7, PlainStep DEF do_mem_abort, Goto, Place, Bare, InCall, Right
<1>8. CASE handle_irq
  BY <1>0, <1>8, PlainStep DEF handle_irq, Goto, Place, Bare, InCall, Right
<1>9. CASE schedule
  BY <1>0, <1>9, PlainStep DEF schedule, Goto, Place, Bare, InCall, Right
<1>10. CASE disable_irq
  BY <1>0, <1>10, PlainStep, ZenonT(40) DEF disable_irq, Goto, Place, Bare, InCall, Right
<1>11. CASE store
  BY <1>11, storeStep
<1>12. CASE kernel_exit
  BY <1>12, kernel_exitStep
<1>13. CASE eret
  BY <1>13, eretStep
<1>14. CASE proceed
  BY <1>0, <1>14, PlainStep DEF proceed, Place, Bare, InCall, Right
<1>15. CASE UNCHANGED cpu
  BY <1>15 DEF cpu, EntryInv, CpuTypeOK, Nested, Saved, Live, Bare, FrameRight,
               Inside, InCall, Right, Top
<1> QED
  BY <1>1, <1>2, <1>3, <1>4, <1>5, <1>6, <1>7, <1>8, <1>9, <1>10, <1>11,
     <1>12, <1>13, <1>14, <1>15 DEF CpuNext, Machine

LEMMA EntryInvariant == CpuSpec => []EntryInv
BY EntryInit, EntryStep, PTL DEF CpuSpec

-----------------------------------------------------------------------------
\* Registers and frames stay what they are, however deep interrupts nest.
THEOREM CpuTypes == CpuSpec => []CpuTypeOK
<1>1. EntryInv => CpuTypeOK
  BY DEF EntryInv
<1> QED
  BY <1>1, EntryInvariant, PTL

\* What the program passes reaches the call and what the call gives back
\* reaches the program, for interrupts and switches anywhere in between
\* (entry.S:20-35, 62-76, 147).
THEOREM RegistersAreKept == CpuSpec => []RegistersKept
<1>1. EntryInv => RegistersKept
  BY DEF EntryInv, Live, Right, RegistersKept
<1> QED
  BY <1>1, EntryInvariant, PTL

\* Each eret returns to where its exception was taken, with interrupts
\* enabled, at every depth (entry.S:51-78, 108-160, 207-209).
THEOREM EretReturns == CpuSpec => ReturnsHome
<1>1. EntryInv /\ [CpuNext]_cpu => [eret => pc' = Top(from) /\ irq']_cpu
  BY DEF EntryInv, Live, Bare, eret, cpu
<1> QED
  BY <1>1, EntryInvariant, PTL DEF CpuSpec, ReturnsHome
=============================================================================
