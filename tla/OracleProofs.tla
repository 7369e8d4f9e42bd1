---------------------------- MODULE OracleProofs ----------------------------
(***************************************************************************)
(* What the oracle says of a history is true: the ordering it found is a   *)
(* linearization, and a history it rejects has none.  The first invariant  *)
(* speaks of the whole stack: each frame is what the one below becomes     *)
(* when one operation is placed.  The second is stated further down.       *)
(***************************************************************************)
EXTENDS Audit, FiniteSetTheorems, SequenceTheorems, WellFoundedInduction, TLAPS

\* Frame g follows frame f by placing operation i of rows.
Follows(rows, f, g, i) ==
    /\ i \in Minimal(rows, f.pending)
    /\ RefResult(f.store, rows[i].o) = rows[i].observed
    /\ g.store = RefStore(f.store, rows[i].o)
    /\ g.pending = f.pending \ {i}

IsFrame(f) ==
    f = [store |-> f.store, pending |-> f.pending, left |-> f.left, path |-> f.path]

\* What the j-th frame of stack s is.
FrameOK(rows, s, j) ==
    /\ IsFrame(s[j])
    /\ s[j].path \in Seq(DOMAIN rows)
    /\ Len(s[j].path) = j - 1
    /\ s[j].left \subseteq Minimal(rows, s[j].pending)
    /\ DOMAIN rows = s[j].pending \cup {s[j].path[m] : m \in 1 .. j - 1}
    /\ \A m \in 1 .. j - 1 : Follows(rows, s[m], s[m + 1], s[j].path[m])
    /\ \A m \in 1 .. j : s[j].pending \subseteq s[m].pending

StackOK(rows, s) ==
    /\ \E S : s \in Seq(S)
    /\ s # <<>> => s[1].store = EmptyStore
    /\ \A j \in 1 .. Len(s) : FrameOK(rows, s, j)

IInv ==
    /\ StackOK(ops, stack)
    /\ verdict = "none" => stack = <<>>
    /\ verdict = "searching" => stack # <<>>
    /\ verdict = "linearizable" /\ ops # <<>> => stack # <<>> /\ Top.pending = {}

-----------------------------------------------------------------------------
\* Moving on to the next candidate changes one frame, and only what it has left.
LEMMA AdvancedKeeps ==
    ASSUME NEW S, stack \in Seq(S), stack # <<>>, IsFrame(Top), NEW i
    PROVE  /\ \E T : Advanced(i) \in Seq(T)
           /\ Len(Advanced(i)) = Len(stack)
           /\ \A j \in 1 .. Len(stack) :
                /\ Advanced(i)[j].store = stack[j].store
                /\ Advanced(i)[j].pending = stack[j].pending
                /\ Advanced(i)[j].path = stack[j].path
                /\ Advanced(i)[j].left \subseteq stack[j].left
                /\ IsFrame(stack[j]) => IsFrame(Advanced(i)[j])
<1> DEFINE f == [Top EXCEPT !.left = @ \ {i}]
<1>1. Len(stack) \in Nat /\ Len(stack) >= 1
  OBVIOUS
<1>2. Advanced(i) = [stack EXCEPT ![Len(stack)] = f]
  BY <1>1 DEF Advanced, Top
<1>3. /\ f.store = Top.store /\ f.pending = Top.pending /\ f.path = Top.path
      /\ f.left = Top.left \ {i} /\ IsFrame(f)
  <2> DEFINE g == [store |-> Top.store, pending |-> Top.pending, left |-> Top.left,
                   path |-> Top.path]
  <2>1. Top = g
    BY DEF IsFrame
  <2>2. f = [g EXCEPT !.left = @ \ {i}]
    BY <2>1
  <2> HIDE DEF f
  <2>3. f = [store |-> Top.store, pending |-> Top.pending, left |-> Top.left \ {i},
             path |-> Top.path]
    BY <2>2
  <2> QED
    BY <2>3 DEF IsFrame
<1> HIDE DEF f
<1>4. Advanced(i) \in Seq(S \cup {f}) /\ Len(Advanced(i)) = Len(stack)
  BY <1>1, <1>2
<1>5. \A j \in 1 .. Len(stack) : Advanced(i)[j] = IF j = Len(stack) THEN f ELSE stack[j]
  BY <1>1, <1>2
<1> QED
  BY <1>3, <1>4, <1>5 DEF Top

\* Moving on takes the candidate from what is left of the top frame.
LEMMA AdvancedLeft ==
    ASSUME NEW S, stack \in Seq(S), stack # <<>>, IsFrame(Top), NEW i
    PROVE  /\ \A j \in 1 .. Len(stack) - 1 : Advanced(i)[j].left = stack[j].left
           /\ Advanced(i)[Len(stack)].left = stack[Len(stack)].left \ {i}
<1> DEFINE f == [Top EXCEPT !.left = @ \ {i}]
<1>1. Len(stack) \in Nat /\ Len(stack) >= 1
  OBVIOUS
<1>2. Advanced(i) = [stack EXCEPT ![Len(stack)] = f]
  BY <1>1 DEF Advanced, Top
<1>3. f.left = Top.left \ {i}
  <2> DEFINE g == [store |-> Top.store, pending |-> Top.pending, left |-> Top.left,
                   path |-> Top.path]
  <2>1. f = [g EXCEPT !.left = @ \ {i}]
    BY DEF IsFrame
  <2> QED
    BY <2>1
<1> HIDE DEF f
<1>4. \A j \in 1 .. Len(stack) : Advanced(i)[j] = IF j = Len(stack) THEN f ELSE stack[j]
  BY <1>1, <1>2
<1>5. \A j \in 1 .. Len(stack) - 1 : j \in 1 .. Len(stack) /\ j # Len(stack)
  BY <1>1
<1>6. Len(stack) \in 1 .. Len(stack)
  BY <1>1
<1> QED
  BY <1>3, <1>4, <1>5, <1>6 DEF Top

\* A frame speaks of itself and of the frames below it only, and of all but what
\* these have left.
LEMMA FrameSame ==
    ASSUME NEW s, NEW t, NEW j \in Nat \ {0}, FrameOK(ops, s, j),
           \A m \in 1 .. j :
             t[m].store = s[m].store /\ t[m].pending = s[m].pending,
           t[j].path = s[j].path, t[j].left \subseteq s[j].left, IsFrame(t[j])
    PROVE  FrameOK(ops, t, j)
<1>1. j \in 1 .. j
  OBVIOUS
<1>2. t[j].pending = s[j].pending
  BY <1>1
<1>3. ASSUME NEW m \in 1 .. j - 1 PROVE Follows(ops, t[m], t[m + 1], t[j].path[m])
  <2>1. m \in 1 .. j /\ m + 1 \in 1 .. j
    OBVIOUS
  <2>2. Follows(ops, s[m], s[m + 1], s[j].path[m])
    BY DEF FrameOK
  <2>3. /\ t[m].store = s[m].store /\ t[m].pending = s[m].pending
        /\ t[m + 1].store = s[m + 1].store /\ t[m + 1].pending = s[m + 1].pending
    BY <2>1
  <2> QED
    BY <2>2, <2>3 DEF Follows
<1>4. ASSUME NEW m \in 1 .. j PROVE t[j].pending \subseteq t[m].pending
  <2>1. s[j].pending \subseteq s[m].pending
    BY DEF FrameOK
  <2> QED
    BY <1>2, <2>1
<1>5. t[j].left \subseteq Minimal(ops, t[j].pending)
  BY <1>2 DEF FrameOK
<1>6. DOMAIN ops = t[j].pending \cup {t[j].path[m] : m \in 1 .. j - 1}
  BY <1>2 DEF FrameOK
<1>7. t[j].path \in Seq(DOMAIN ops) /\ Len(t[j].path) = j - 1
  BY DEF FrameOK
<1> QED
  BY <1>3, <1>4, <1>5, <1>6, <1>7 DEF FrameOK

\* A stack whose frames differ from those of a good one by candidates taken away
\* is good.
LEMMA FewerLeft ==
    ASSUME NEW s, NEW t, StackOK(ops, s), \E T : t \in Seq(T), Len(t) = Len(s),
           \A j \in 1 .. Len(s) :
             /\ t[j].store = s[j].store
             /\ t[j].pending = s[j].pending
             /\ t[j].path = s[j].path
             /\ t[j].left \subseteq s[j].left
             /\ IsFrame(s[j]) => IsFrame(t[j])
    PROVE  StackOK(ops, t)
<1>1. PICK S : s \in Seq(S)
  BY DEF StackOK
<1>2. Len(s) \in Nat
  BY <1>1
<1>3. ASSUME NEW j \in 1 .. Len(t) PROVE FrameOK(ops, t, j)
  <2>1. FrameOK(ops, s, j) /\ IsFrame(s[j])
    BY DEF StackOK, FrameOK
  <2>2. j \in Nat \ {0} /\ \A m \in 1 .. j : m \in 1 .. Len(s)
    BY <1>2
  <2> QED
    BY <2>1, <2>2, FrameSame
<1>4. ASSUME t # <<>> PROVE t[1].store = EmptyStore
  <2>1. PICK T : t \in Seq(T)
    OBVIOUS
  <2>2. Len(t) # 0
    BY <1>4, <2>1
  <2>3. s # <<>> /\ 1 \in 1 .. Len(s)
    BY <1>1, <1>2, <2>2
  <2> QED
    BY <2>3 DEF StackOK
<1> QED
  BY <1>3, <1>4 DEF StackOK

\* A stack without its top frame.
LEMMA WithoutLast ==
    ASSUME NEW S, NEW s \in Seq(S), s # <<>>
    PROVE  /\ SubSeq(s, 1, Len(s) - 1) \in Seq(S)
           /\ Len(SubSeq(s, 1, Len(s) - 1)) = Len(s) - 1
           /\ \A j \in 1 .. Len(s) - 1 : SubSeq(s, 1, Len(s) - 1)[j] = s[j]
<1> DEFINE t == SubSeq(s, 1, Len(s) - 1)
<1>1. Len(s) \in Nat \ {0}
  OBVIOUS
<1>2. \A j \in 1 .. Len(s) - 1 : s[j] \in S
  OBVIOUS
<1>3. 1 \in Int /\ Len(s) - 1 \in Int
  BY <1>1
<1>4. /\ t \in Seq(S)
      /\ Len(t) = IF 1 <= Len(s) - 1 THEN Len(s) - 1 - 1 + 1 ELSE 0
      /\ \A j \in 1 .. Len(s) - 1 - 1 + 1 : t[j] = s[1 + j - 1]
  BY <1>2, <1>3, SubSeqProperties
<1> HIDE DEF t
<1>5. Len(t) = Len(s) - 1
  <2>1. \A k \in Nat \ {0} : (IF 1 <= k - 1 THEN k - 1 - 1 + 1 ELSE 0) = k - 1
    OBVIOUS
  <2>2. (IF 1 <= Len(s) - 1 THEN Len(s) - 1 - 1 + 1 ELSE 0) = Len(s) - 1
    BY <1>1, <2>1
  <2> QED
    BY <1>4, <2>2
<1>6. ASSUME NEW j \in 1 .. Len(s) - 1 PROVE t[j] = s[j]
  <2>1. j \in 1 .. Len(s) - 1 - 1 + 1 /\ 1 + j - 1 = j
    BY <1>1
  <2> QED
    BY <1>4, <2>1
<1> QED
  BY <1>4, <1>5, <1>6 DEF t

\* A good stack is good without its top.
LEMMA PoppedOK ==
    ASSUME NEW s, StackOK(ops, s), s # <<>>
    PROVE  StackOK(ops, SubSeq(s, 1, Len(s) - 1))
<1> DEFINE t == SubSeq(s, 1, Len(s) - 1)
<1>1. PICK S : s \in Seq(S)
  BY DEF StackOK
<1>2. Len(s) \in Nat \ {0}
  BY <1>1
<1>3. /\ t \in Seq(S) /\ Len(t) = Len(s) - 1
      /\ \A j \in 1 .. Len(t) : t[j] = s[j]
  BY <1>1, WithoutLast
<1> HIDE DEF t
<1>4. ASSUME NEW j \in 1 .. Len(t) PROVE FrameOK(ops, t, j)
  <2>1. j \in Nat \ {0} /\ j \in 1 .. Len(s)
    BY <1>2, <1>3
  <2>2. FrameOK(ops, s, j)
    BY <2>1 DEF StackOK
  <2>3. \A m \in 1 .. j : t[m] = s[m]
    BY <1>2, <1>3
  <2>4. t[j] = s[j] /\ IsFrame(t[j])
    BY <2>1, <2>2, <2>3 DEF FrameOK
  <2> QED
    BY <2>1, <2>2, <2>3, <2>4, FrameSame
<1>5. ASSUME t # <<>> PROVE t[1].store = EmptyStore
  <2>1. 1 \in 1 .. Len(t)
    BY <1>3, <1>5
  <2> QED
    BY <1>3, <2>1 DEF StackOK
<1> QED
  BY <1>3, <1>4, <1>5 DEF StackOK, t

\* A good stack stays good when its top is followed by a candidate that fits.
LEMMA PushedOK ==
    ASSUME NEW s, StackOK(ops, s), s # <<>>, NEW i, NEW path,
           i \in Minimal(ops, s[Len(s)].pending),
           RefResult(s[Len(s)].store, ops[i].o) = ops[i].observed,
           path = Append(s[Len(s)].path, i)
    PROVE  StackOK(ops, Append(s, Frame(ops, RefStore(s[Len(s)].store, ops[i].o),
                                        s[Len(s)].pending \ {i}, path)))
<1> DEFINE f == Frame(ops, RefStore(s[Len(s)].store, ops[i].o), s[Len(s)].pending \ {i}, path)
           t == Append(s, f)
           L == Len(s)
<1>1. PICK S : s \in Seq(S)
  BY DEF StackOK
<1>2. L \in Nat /\ L >= 1 /\ FrameOK(ops, s, L)
  BY <1>1 DEF StackOK
<1>3. /\ f.store = RefStore(s[L].store, ops[i].o) /\ f.pending = s[L].pending \ {i}
      /\ f.left = Minimal(ops, f.pending) /\ f.path = path /\ IsFrame(f)
  BY DEF Frame, IsFrame
<1> HIDE DEF f
<1>4. /\ t \in Seq(S \cup {f}) /\ Len(t) = L + 1 /\ t[L + 1] = f
      /\ \A j \in 1 .. L : t[j] = s[j]
  BY <1>1
<1> HIDE DEF t, L
<1>5. ASSUME NEW j \in 1 .. L PROVE FrameOK(ops, t, j)
  <2>1. j \in Nat \ {0} /\ j \in 1 .. Len(s)
    BY <1>2 DEF L
  <2>2. FrameOK(ops, s, j)
    BY <2>1 DEF StackOK
  <2>3. \A m \in 1 .. j : t[m] = s[m]
    BY <1>2, <1>4
  <2>4. t[j] = s[j] /\ IsFrame(t[j])
    BY <2>1, <2>2, <2>3 DEF FrameOK
  <2> QED
    BY <2>1, <2>2, <2>3, <2>4, FrameSame
<1>6. FrameOK(ops, t, L + 1)
  <2>1. i \in DOMAIN ops /\ i \in s[L].pending
    BY <1>2 DEF FrameOK, Minimal, L
  <2>2. /\ s[L].path \in Seq(DOMAIN ops) /\ Len(s[L].path) = L - 1
        /\ DOMAIN ops = s[L].pending \cup {s[L].path[m] : m \in 1 .. L - 1}
        /\ \A m \in 1 .. L - 1 : Follows(ops, s[m], s[m + 1], s[L].path[m])
        /\ \A m \in 1 .. L : s[L].pending \subseteq s[m].pending
    BY <1>2 DEF FrameOK
  <2>3. /\ path \in Seq(DOMAIN ops) /\ Len(path) = L /\ path[L] = i
        /\ \A m \in 1 .. L - 1 : path[m] = s[L].path[m]
    BY <1>2, <2>1, <2>2 DEF L
  <2>4. DOMAIN ops = f.pending \cup {path[m] : m \in 1 .. L}
    <3>1. ASSUME NEW o \in DOMAIN ops, o \notin f.pending
          PROVE  \E m \in 1 .. L : o = path[m]
      <4>1. CASE o = i
        BY <1>2, <2>3, <4>1
      <4>2. CASE o \notin s[L].pending
        <5>1. PICK m \in 1 .. L - 1 : o = s[L].path[m]
          BY <2>2, <4>2
        <5> QED
          BY <1>2, <2>3, <5>1
      <4> QED
        BY <1>3, <3>1, <4>1, <4>2
    <3>2. \A m \in 1 .. L : path[m] \in DOMAIN ops
      BY <2>3
    <3>3. f.pending \subseteq DOMAIN ops
      BY <1>3, <2>2
    <3> QED
      BY <3>1, <3>2, <3>3
  <2>5. ASSUME NEW m \in 1 .. L PROVE Follows(ops, t[m], t[m + 1], path[m])
    <3>1. CASE m = L
      <4>1. t[m] = s[L] /\ t[m + 1] = f /\ path[m] = i
        BY <1>2, <1>4, <2>3, <3>1
      <4>2. Follows(ops, s[L], f, i)
        BY <1>3 DEF Follows, L
      <4> QED
        BY <4>1, <4>2
    <3>2. CASE m \in 1 .. L - 1
      <4>1. m \in 1 .. L /\ m + 1 \in 1 .. L
        BY <1>2, <3>2
      <4>2. t[m] = s[m] /\ t[m + 1] = s[m + 1] /\ path[m] = s[L].path[m]
        BY <1>4, <2>3, <3>2, <4>1
      <4> QED
        BY <2>2, <3>2, <4>2
    <3>3. L \in Nat
      BY <1>2
    <3>4. m = L \/ m \in 1 .. L - 1
      BY <3>3
    <3> QED
      BY <3>1, <3>2, <3>4
  <2>6. ASSUME NEW m \in 1 .. L + 1 PROVE f.pending \subseteq t[m].pending
    <3>1. CASE m = L + 1
      BY <1>4, <3>1
    <3>2. CASE m \in 1 .. L
      <4>1. t[m] = s[m] /\ s[L].pending \subseteq s[m].pending
        BY <1>4, <2>2, <3>2
      <4> QED
        BY <1>3, <4>1
    <3>3. L \in Nat
      BY <1>2
    <3>4. m = L + 1 \/ m \in 1 .. L
      BY <3>3
    <3> QED
      BY <3>1, <3>2, <3>4
  <2> DEFINE J == L + 1
  <2>7. J - 1 = L /\ t[J] = f
    BY <1>2, <1>4
  <2>8. J \in Nat
    BY <1>2
  <2> HIDE DEF J
  <2>9. /\ IsFrame(t[J])
        /\ t[J].path \in Seq(DOMAIN ops)
        /\ Len(t[J].path) = J - 1
    BY <1>3, <2>3, <2>7
  <2>10. t[J].left \subseteq Minimal(ops, t[J].pending)
    BY <1>3, <2>7
  <2>11. DOMAIN ops = t[J].pending \cup {t[J].path[m] : m \in 1 .. J - 1}
    BY <1>3, <2>4, <2>7
  <2>12. \A m \in 1 .. J - 1 : Follows(ops, t[m], t[m + 1], t[J].path[m])
    BY <1>3, <2>5, <2>7
  <2>13. \A m \in 1 .. J : t[J].pending \subseteq t[m].pending
    BY <2>6, <2>7 DEF J
  <2>14. FrameOK(ops, t, J)
    BY <2>9, <2>10, <2>11, <2>12, <2>13 DEF FrameOK
  <2> QED
    BY <2>14 DEF J
<1>7. \A j \in 1 .. Len(t) : FrameOK(ops, t, j)
  BY <1>2, <1>4, <1>5, <1>6
<1>8. t # <<>> => t[1].store = EmptyStore
  BY <1>1, <1>2, <1>4 DEF StackOK, L
<1> QED
  BY <1>4, <1>7, <1>8 DEF StackOK, t, f, L

-----------------------------------------------------------------------------
\* The invariant holds before the check, and when it starts.
LEMMA InitOK == Init => IInv
<1> SUFFICES ASSUME Init PROVE IInv
  OBVIOUS
<1>1. stack = <<>> /\ ops = <<>> /\ verdict = "none"
  BY DEF Init, OracleInit
<1>2. <<>> \in Seq({}) /\ Len(<<>>) = 0
  OBVIOUS
<1> QED
  BY <1>1, <1>2 DEF IInv, StackOK

\* The start of a check keeps IInv.
LEMMA StartOK ==
    ASSUME IInv, NEW rows, Start(rows)
    PROVE  IInv'
<1> DEFINE completed == Completions(rows)
           f == Frame(completed, EmptyStore, DOMAIN completed, <<>>)
<1>1. verdict = "none" /\ ops' = completed /\ stack = <<>>
  BY DEF Start, IInv
<1>3. CASE completed = <<>>
  <2>1. stack' = <<>> /\ verdict' = "linearizable" /\ ops' = <<>>
    BY <1>1, <1>3 DEF Start
  <2>2. <<>> \in Seq({}) /\ Len(<<>>) = 0
    OBVIOUS
  <2> QED
    BY <2>1, <2>2 DEF IInv, StackOK
<1>4. CASE completed # <<>>
  <2>1. stack' = <<f>> /\ verdict' = "searching"
    BY <1>4 DEF Start
  <2>2. /\ f.store = EmptyStore /\ f.pending = DOMAIN completed /\ f.path = <<>>
        /\ f.left = Minimal(completed, f.pending) /\ IsFrame(f)
    BY DEF Frame, IsFrame
  <2> HIDE DEF f, completed
  <2>3. <<f>> \in Seq({f}) /\ Len(<<f>>) = 1 /\ <<f>>[1] = f /\ <<f>> # <<>>
    OBVIOUS
  <2>4. <<>> \in Seq(DOMAIN completed) /\ Len(<<>>) = 0 /\ 1 .. 1 - 1 = {}
    OBVIOUS
  <2> DEFINE s == <<f>>
  <2>5. s[1] = f /\ s \in Seq({f}) /\ Len(s) = 1
    BY <2>3
  <2> HIDE DEF s
  <2>6. FrameOK(completed, s, 1)
    <3>1. \A j \in 1 .. 1 : j = 1
      OBVIOUS
    <3>2. DOMAIN completed = s[1].pending \cup {s[1].path[m] : m \in 1 .. 1 - 1}
      BY <2>2, <2>4, <2>5
    <3> QED
      <4>1. /\ IsFrame(s[1]) /\ s[1].path \in Seq(DOMAIN completed)
            /\ Len(s[1].path) = 1 - 1 /\ s[1].left \subseteq Minimal(completed, s[1].pending)
        <5>1. s[1] = f
          BY <2>5
        <5>2. f.path \in Seq(DOMAIN completed) /\ Len(f.path) = 1 - 1
          BY <2>2, <2>4
        <5> QED
          BY <2>2, <5>1, <5>2
      <4>2. /\ \A m \in 1 .. 1 - 1 : Follows(completed, s[m], s[m + 1], s[1].path[m])
            /\ \A m \in 1 .. 1 : s[1].pending \subseteq s[m].pending
        BY <2>4, <3>1
      <4> QED
        BY <3>2, <4>1, <4>2 DEF FrameOK
  <2>7. StackOK(completed, s)
    <3>1. \A j \in 1 .. 1 : j = 1
      OBVIOUS
    <3>2. \A j \in 1 .. Len(s) : FrameOK(completed, s, j)
      BY <2>5, <2>6, <3>1
    <3> QED
      BY <2>2, <2>5, <3>2 DEF StackOK
  <2> QED
    BY <1>1, <2>1, <2>3, <2>7 DEF IInv, s
<1> QED
  BY <1>3, <1>4

\* A turn of the loop keeps it.
LEMMA SearchOK == ASSUME IInv, Search PROVE IInv'
<1>1. stack # <<>> /\ StackOK(ops, stack) /\ verdict = "searching" /\ ops' = ops
  BY DEF IInv, Search, Accept, Backtrack, Mismatch, DeadEnd, Place
<1>2. PICK S : stack \in Seq(S)
  BY <1>1 DEF StackOK
<1>3. Len(stack) \in Nat \ {0} /\ Len(stack) \in 1 .. Len(stack)
  BY <1>1, <1>2
<1>4. FrameOK(ops, stack, Len(stack)) /\ IsFrame(Top)
  BY <1>1, <1>3 DEF StackOK, FrameOK, Top
<1>5. CASE Accept
  BY <1>1, <1>5 DEF Accept, IInv, Top
<1>6. CASE Backtrack
  <2>1. StackOK(ops, stack')
    BY <1>1, <1>6, PoppedOK DEF Backtrack
  <2>2. verdict' = "searching" => stack' # <<>>
    <3>1. CASE Len(stack) = 1
      BY <1>6, <3>1 DEF Backtrack
    <3>2. CASE Len(stack) # 1
      <4>2. stack' = SubSeq(stack, 1, Len(stack) - 1)
        BY <1>6 DEF Backtrack
      <4>3. stack' \in Seq(S) /\ Len(stack') = Len(stack) - 1
        BY <1>1, <1>2, <4>2, WithoutLast
      <4> QED
        BY <1>3, <3>2, <4>3
    <3> QED
      BY <3>1, <3>2
  <2>3. verdict' = "searching" \/ verdict' = "illegal"
    BY <1>1, <1>6 DEF Backtrack
  <2> QED
    BY <1>1, <2>1, <2>2, <2>3 DEF IInv
<1>7. ASSUME NEW i \in Top.left, Mismatch(i) \/ DeadEnd(i) \/ Place(i) PROVE IInv'
  <2>1. /\ \E T : Advanced(i) \in Seq(T)
        /\ Len(Advanced(i)) = Len(stack)
        /\ \A j \in 1 .. Len(stack) :
             /\ Advanced(i)[j].store = stack[j].store
             /\ Advanced(i)[j].pending = stack[j].pending
             /\ Advanced(i)[j].path = stack[j].path
             /\ Advanced(i)[j].left \subseteq stack[j].left
             /\ IsFrame(stack[j]) => IsFrame(Advanced(i)[j])
    BY <1>1, <1>2, <1>4, AdvancedKeeps
  <2> DEFINE s == Advanced(i)
  <2> HIDE DEF s
  <2>2. StackOK(ops, s)
    BY <1>1, <2>1, FewerLeft DEF s
  <2>3. s # <<>>
    <3>1. PICK T : s \in Seq(T)
      BY <2>1 DEF s
    <3>2. Len(s) # 0
      BY <1>3, <2>1 DEF s
    <3> QED
      BY <3>1, <3>2
  <2>4. CASE stack' = s /\ verdict' \in {"searching", "undetermined"}
    BY <1>1, <2>2, <2>3, <2>4 DEF IInv
  <2>5. CASE ~(stack' = s /\ verdict' \in {"searching", "undetermined"})
    <3> DEFINE f == Frame(ops, RefStore(Top.store, ops[i].o), Top.pending \ {i},
                          Append(Top.path, i))
    <3>1. /\ RefResult(Top.store, ops[i].o) = ops[i].observed
          /\ stack' = Append(s, f)
          /\ verdict' = "searching"
      BY <1>1, <1>7, <2>5 DEF Mismatch, DeadEnd, Place, s
    <3>2. /\ s[Len(s)].store = Top.store /\ s[Len(s)].pending = Top.pending
          /\ s[Len(s)].path = Top.path
      BY <1>3, <2>1 DEF s, Top
    <3>3. i \in Minimal(ops, s[Len(s)].pending)
      BY <1>4, <1>7, <3>2 DEF FrameOK, Top
    <3>4. StackOK(ops, Append(s, f))
      BY <2>2, <2>3, <3>1, <3>2, <3>3, PushedOK
    <3> HIDE DEF f
    <3>5. Append(s, f) # <<>>
      <4>1. PICK T : s \in Seq(T)
        BY <2>1 DEF s
      <4>2. Append(s, f) \in Seq(T \cup {f}) /\ Len(Append(s, f)) = Len(s) + 1
        BY <4>1
      <4>3. Len(s) \in Nat
        BY <4>1
      <4> QED
        BY <4>2, <4>3
    <3> QED
      BY <1>1, <3>1, <3>4, <3>5 DEF IInv
  <2> QED
    BY <2>4, <2>5
<1> QED
  BY <1>5, <1>6, <1>7 DEF Search

\* IInv is inductive.
LEMMA StepOK == IInv /\ [Next]_vars => IInv'
<1> SUFFICES ASSUME IInv, [Next]_vars PROVE IInv'
  OBVIOUS
<1>1. CASE UNCHANGED oracleVars
  BY <1>1 DEF IInv, oracleVars, Top
<1>2. CASE StopAndCheck
  BY <1>2, StartOK DEF StopAndCheck
<1>3. CASE Search
  BY <1>3, SearchOK
<1> QED
  BY <1>1, <1>2, <1>3 DEF Next, vars

-----------------------------------------------------------------------------
\* With nothing left to place, the path of the top frame is a linearization.
LEMMA AcceptedIsLegal == IInv => WitnessLegal
<1> SUFFICES ASSUME IInv, verdict = "linearizable", ops # <<>>
             PROVE  Witness(Top.path, [j \in DOMAIN stack |-> stack[j].store])
  BY DEF WitnessLegal
<1> DEFINE L == Len(stack)
           order == Top.path
           run == [j \in DOMAIN stack |-> stack[j].store]
<1>1. stack # <<>> /\ StackOK(ops, stack) /\ Top.pending = {} /\ Top = stack[L]
  BY DEF IInv, Top
<1>2. PICK S : stack \in Seq(S)
  BY <1>1 DEF StackOK
<1>3. L \in Nat \ {0} /\ DOMAIN stack = 1 .. L
  BY <1>1, <1>2
<1>4. L \in 1 .. L /\ 1 \in 1 .. L
  BY <1>3
<1> HIDE DEF L
<1>5. \A j \in 1 .. L : FrameOK(ops, stack, j)
  BY <1>1 DEF StackOK, L
<1>6. FrameOK(ops, stack, L)
  BY <1>4, <1>5
<1>7. /\ order \in Seq(DOMAIN ops) /\ Len(order) = L - 1
      /\ DOMAIN ops = {order[m] : m \in 1 .. L - 1}
      /\ \A m \in 1 .. L - 1 : Follows(ops, stack[m], stack[m + 1], order[m])
  BY <1>1, <1>6 DEF FrameOK
<1>8. DOMAIN order = 1 .. L - 1
  BY <1>7
<1>9. \A j \in DOMAIN stack : run[j] = stack[j].store
  OBVIOUS
<1> HIDE DEF order, run
<1>10. run[1] = EmptyStore
  BY <1>1, <1>3, <1>4, <1>9 DEF StackOK
<1>11. ASSUME NEW a \in DOMAIN order
       PROVE  /\ RefResult(run[a], ops[order[a]].o) = ops[order[a]].observed
              /\ run[a + 1] = RefStore(run[a], ops[order[a]].o)
  <2>1. a \in 1 .. L - 1 /\ a \in DOMAIN stack /\ a + 1 \in DOMAIN stack
    BY <1>3, <1>8
  <2>2. Follows(ops, stack[a], stack[a + 1], order[a])
    BY <1>7, <2>1
  <2> QED
    BY <1>9, <2>1, <2>2 DEF Follows
<1>12. ASSUME NEW a \in DOMAIN order, NEW b \in DOMAIN order, a < b
       PROVE  /\ order[a] # order[b]
              /\ ops[order[a]].invoked <= ops[order[b]].returned
  <2>1. a \in 1 .. L - 1 /\ b \in 1 .. L - 1 /\ b \in 1 .. L /\ a + 1 \in 1 .. b
    BY <1>3, <1>8, <1>12
  <2>2. Follows(ops, stack[a], stack[a + 1], order[a])
    BY <1>7, <2>1
  <2>3. Follows(ops, stack[b], stack[b + 1], order[b])
    BY <1>7, <2>1
  <2>4. stack[b].pending \subseteq stack[a + 1].pending
    BY <1>5, <2>1 DEF FrameOK
  <2>5. order[b] \in stack[b].pending
    BY <2>3 DEF Follows, Minimal
  <2>6. order[b] \in stack[a].pending \ {order[a]}
    BY <2>2, <2>4, <2>5 DEF Follows
  <2> QED
    BY <2>2, <2>6 DEF Follows, Minimal
<1> QED
  BY <1>7, <1>8, <1>10, <1>11, <1>12 DEF Witness, order, run

\* The ordering the oracle returns is a linearization of the history, for every
\* history: whatever was recorded, whatever dead ends were remembered and
\* wherever the budget lies (linearizability.py, check).
THEOREM WitnessAlwaysLegal == Spec => []WitnessLegal
<1>1. Spec => []IInv
  BY InitOK, StepOK, PTL DEF Spec
<1> QED
  BY <1>1, AcceptedIsLegal, PTL

-----------------------------------------------------------------------------
(***************************************************************************)
(* The other half: what the oracle calls illegal has no linearization.     *)
(***************************************************************************)
\* order, along the stores run, places the operations pending from store on.
Completes(rows, store, pending, order, run) ==
    /\ order \in Seq(pending)
    /\ pending = {order[a] : a \in DOMAIN order}
    /\ \A a, b \in DOMAIN order :
         a < b => /\ order[a] # order[b]
                  /\ rows[order[a]].invoked <= rows[order[b]].returned
    /\ run[1] = store
    /\ \A a \in DOMAIN order :
         /\ RefResult(run[a], rows[order[a]].o) = rows[order[a]].observed
         /\ run[a + 1] = RefStore(run[a], rows[order[a]].o)

Completable(rows, store, pending) ==
    \E order, run : Completes(rows, store, pending, order, run)

\* i may come next, and the rest can follow.
LeadsOn(rows, store, pending, i) ==
    /\ RefResult(store, rows[i].o) = rows[i].observed
    /\ Completable(rows, RefStore(store, rows[i].o), pending \ {i})

\* A frame that can be completed has a candidate left that leads on, or it is the
\* frame above that can be.
FrameLeads(s, j) ==
    Completable(ops, s[j].store, s[j].pending) /\ s[j].pending # {} =>
      \/ \E i \in s[j].left : LeadsOn(ops, s[j].store, s[j].pending, i)
      \/ /\ j < Len(s)
         /\ Completable(ops, s[j + 1].store, s[j + 1].pending)

\* A dead end is one, unless it is still being explored.
MemoSound(s, m) ==
    \A st, p : MemoKey(st, p) \in m /\ Completable(ops, st, p) =>
      \E j \in 1 .. Len(s) : s[j].store = st /\ s[j].pending = p

CInv ==
    /\ verdict = "none" => memo = {}
    /\ verdict = "searching" =>
         /\ stack[1].pending = DOMAIN ops
         /\ \A j \in 1 .. Len(stack) : FrameLeads(stack, j)
         /\ MemoSound(stack, memo)
    /\ verdict = "illegal" => ~Completable(ops, EmptyStore, DOMAIN ops)

\* A completion starts with an operation that nothing pending precedes.
LEMMA FirstLeadsOn ==
    ASSUME NEW rows, NEW store, NEW pending, pending # {},
           Completable(rows, store, pending)
    PROVE  \E i \in Minimal(rows, pending) : LeadsOn(rows, store, pending, i)
<1>1. PICK order, run : Completes(rows, store, pending, order, run)
  BY DEF Completable
<1> DEFINE i == order[1]
           L == Len(order)
           rest == Tail(order)
           onward == [a \in 1 .. L |-> run[a + 1]]
<1>2. order \in Seq(pending) /\ L \in Nat /\ DOMAIN order = 1 .. L
  BY <1>1 DEF Completes
<1>3. L >= 1 /\ 1 \in DOMAIN order /\ order # <<>>
  BY <1>1, <1>2 DEF Completes
<1>4. /\ rest \in Seq(pending) /\ Len(rest) = L - 1 /\ DOMAIN rest = 1 .. L - 1
      /\ \A a \in 1 .. L - 1 : rest[a] = order[a + 1]
  BY <1>2, <1>3
<1>5. \A a \in 1 .. L : onward[a] = run[a + 1]
  OBVIOUS
<1> HIDE DEF i, L, rest, onward
<1>6. \A a \in 1 .. L - 1 : a \in DOMAIN order /\ a + 1 \in DOMAIN order /\ 1 < a + 1
  BY <1>2, <1>3
<1>7. pending \ {i} = {rest[a] : a \in DOMAIN rest}
  <2>1. ASSUME NEW a \in DOMAIN rest PROVE rest[a] \in pending /\ rest[a] # i
    <3>1. a + 1 \in DOMAIN order /\ 1 < a + 1 /\ rest[a] = order[a + 1]
      BY <1>4, <1>6
    <3>2. order[1] # order[a + 1]
      BY <1>1, <1>3, <3>1 DEF Completes
    <3> QED
      BY <1>1, <3>1, <3>2 DEF Completes, i
  <2>2. ASSUME NEW o \in pending, o # i PROVE \E a \in DOMAIN rest : o = rest[a]
    <3>1. PICK b \in 1 .. L : o = order[b]
      BY <1>1, <1>2 DEF Completes
    <3>2. b # 1
      BY <2>2, <3>1 DEF i
    <3>3. b - 1 \in 1 .. L - 1 /\ (b - 1) + 1 = b
      BY <1>2, <3>2
    <3> QED
      BY <1>4, <3>1, <3>3
  <2> QED
    BY <2>1, <2>2
<1>8. i \in Minimal(rows, pending)
  <2>1. i \in pending
    BY <1>1, <1>3 DEF Completes, i
  <2>2. ASSUME NEW o \in pending \ {i} PROVE rows[i].invoked <= rows[o].returned
    <3>1. PICK a \in 1 .. L - 1 : o = order[a + 1]
      BY <1>4, <1>7
    <3> QED
      BY <1>1, <1>3, <1>6, <3>1 DEF Completes, i
  <2> QED
    BY <2>1, <2>2 DEF Minimal
<1>9. RefResult(store, rows[i].o) = rows[i].observed
  BY <1>1, <1>3 DEF Completes, i
<1>10. Completes(rows, RefStore(store, rows[i].o), pending \ {i}, rest, onward)
  <2>1. rest \in Seq(pending \ {i})
    BY <1>4, <1>7
  <2>2. ASSUME NEW a \in DOMAIN rest, NEW b \in DOMAIN rest, a < b
        PROVE  /\ rest[a] # rest[b]
               /\ rows[rest[a]].invoked <= rows[rest[b]].returned
    <3>1. a + 1 < b + 1
      BY <1>2, <1>4, <2>2
    <3>2. /\ a + 1 \in DOMAIN order /\ rest[a] = order[a + 1]
          /\ b + 1 \in DOMAIN order /\ rest[b] = order[b + 1]
      BY <1>4, <1>6
    <3>3. /\ order[a + 1] # order[b + 1]
          /\ rows[order[a + 1]].invoked <= rows[order[b + 1]].returned
      BY <1>1, <3>1, <3>2 DEF Completes
    <3> QED
      BY <3>2, <3>3
  <2>3. onward[1] = RefStore(store, rows[i].o)
    <3>1. run[1 + 1] = RefStore(run[1], rows[order[1]].o) /\ run[1] = store
      BY <1>1, <1>3 DEF Completes
    <3>2. 1 \in 1 .. L
      BY <1>2, <1>3
    <3> QED
      BY <1>5, <3>1, <3>2 DEF i
  <2>4. ASSUME NEW a \in DOMAIN rest
        PROVE  /\ RefResult(onward[a], rows[rest[a]].o) = rows[rest[a]].observed
               /\ onward[a + 1] = RefStore(onward[a], rows[rest[a]].o)
    <3>1. a + 1 \in DOMAIN order /\ rest[a] = order[a + 1]
      BY <1>4, <1>6
    <3>2. onward[a] = run[a + 1] /\ onward[a + 1] = run[(a + 1) + 1]
      BY <1>2, <1>4, <1>5
    <3> QED
      BY <1>1, <3>1, <3>2 DEF Completes
  <2> QED
    BY <1>7, <2>1, <2>2, <2>3, <2>4 DEF Completes
<1> QED
  BY <1>8, <1>9, <1>10 DEF LeadsOn, Completable

\* A frame whose candidates are all that may come next leads on.
LEMMA NewFrameLeads ==
    ASSUME NEW s, NEW j, s[j].left = Minimal(ops, s[j].pending)
    PROVE  FrameLeads(s, j)
  BY FirstLeadsOn DEF FrameLeads

\* CInv holds at first.
LEMMA InitC == Init => CInv
  BY DEF Init, OracleInit, CInv

\* The start of a check keeps CInv.
LEMMA StartC == ASSUME CInv, NEW rows, Start(rows) PROVE CInv'
<1> DEFINE completed == Completions(rows)
           f == Frame(completed, EmptyStore, DOMAIN completed, <<>>)
<1>1. verdict = "none" /\ ops' = completed /\ memo' = {}
  BY DEF Start, CInv
<1>2. CASE completed = <<>>
  <2>1. verdict' = "linearizable"
    BY <1>2 DEF Start
  <2> QED
    BY <2>1 DEF CInv
<1>3. CASE completed # <<>>
  <2>1. stack' = <<f>> /\ verdict' = "searching"
    BY <1>3 DEF Start
  <2>2. f.store = EmptyStore /\ f.pending = DOMAIN completed /\ f.left = Minimal(completed, f.pending)
    BY DEF Frame
  <2> HIDE DEF f, completed
  <2>3. Len(stack') = 1 /\ stack'[1] = f /\ \A j \in 1 .. 1 : j = 1
    BY <2>1
  <2>4. FrameLeads(stack, 1)'
    <3>1. stack'[1].left = Minimal(ops', stack'[1].pending)
      BY <1>1, <2>2, <2>3
    <3> QED
      BY <3>1, FirstLeadsOn DEF FrameLeads
  <2>5. MemoSound(stack, memo)'
    BY <1>1 DEF MemoSound
  <2> QED
    BY <1>1, <2>1, <2>2, <2>3, <2>4, <2>5 DEF CInv
<1> QED
  BY <1>2, <1>3

\* Taking away a candidate that does not lead on loses nothing.
LEMMA AdvanceC ==
    ASSUME NEW s, NEW t, NEW L \in Nat \ {0}, NEW i, Len(s) = L, Len(t) = L,
           \A j \in 1 .. L : FrameLeads(s, j), MemoSound(s, memo),
           ~LeadsOn(ops, s[L].store, s[L].pending, i),
           \A j \in 1 .. L : t[j].store = s[j].store /\ t[j].pending = s[j].pending,
           \A j \in 1 .. L - 1 : t[j].left = s[j].left,
           t[L].left = s[L].left \ {i}
    PROVE  (\A j \in 1 .. L : FrameLeads(t, j)) /\ MemoSound(t, memo)
<1>1. ASSUME NEW j \in 1 .. L PROVE FrameLeads(t, j)
  <2>1. FrameLeads(s, j) /\ t[j].store = s[j].store /\ t[j].pending = s[j].pending
    OBVIOUS
  <2>2. CASE j = L
    BY <2>1, <2>2 DEF FrameLeads
  <2>3. CASE j # L
    <3>1. j \in 1 .. L - 1 /\ j + 1 \in 1 .. L
      BY <2>3
    <3>2. /\ t[j].left = s[j].left
          /\ t[j + 1].store = s[j + 1].store /\ t[j + 1].pending = s[j + 1].pending
      BY <3>1
    <3> QED
      BY <2>1, <3>2 DEF FrameLeads
  <2> QED
    BY <2>2, <2>3
<1>2. MemoSound(t, memo)
  BY DEF MemoSound
<1> QED
  BY <1>1, <1>2

\* Placing a candidate moves its completion to the frame it pushes.
LEMMA PlaceC ==
    ASSUME NEW s, NEW t, NEW L \in Nat \ {0}, NEW i, Len(s) = L, Len(t) = L + 1,
           \A j \in 1 .. L : FrameLeads(s, j), MemoSound(s, memo),
           \A j \in 1 .. L : t[j].store = s[j].store /\ t[j].pending = s[j].pending,
           \A j \in 1 .. L - 1 : t[j].left = s[j].left,
           t[L].left = s[L].left \ {i},
           t[L + 1].store = RefStore(s[L].store, ops[i].o),
           t[L + 1].pending = s[L].pending \ {i},
           t[L + 1].left = Minimal(ops, t[L + 1].pending)
    PROVE  /\ \A j \in 1 .. L + 1 : FrameLeads(t, j)
           /\ MemoSound(t, memo \cup {MemoKey(t[L + 1].store, t[L + 1].pending)})
<1>1. FrameLeads(t, L + 1)
  BY NewFrameLeads
<1>2. FrameLeads(t, L)
  <2>1. /\ FrameLeads(s, L) /\ ~(L < L) /\ L < L + 1
        /\ t[L].store = s[L].store /\ t[L].pending = s[L].pending
    OBVIOUS
  <2>2. LeadsOn(ops, s[L].store, s[L].pending, i) =>
          Completable(ops, t[L + 1].store, t[L + 1].pending)
    BY DEF LeadsOn
  <2> QED
    BY <2>1, <2>2 DEF FrameLeads
<1>3. ASSUME NEW j \in 1 .. L - 1 PROVE FrameLeads(t, j)
  <2>1. j \in 1 .. L /\ j + 1 \in 1 .. L /\ j < Len(t)
    OBVIOUS
  <2>2. /\ FrameLeads(s, j) /\ t[j].store = s[j].store /\ t[j].pending = s[j].pending
        /\ t[j].left = s[j].left
        /\ t[j + 1].store = s[j + 1].store /\ t[j + 1].pending = s[j + 1].pending
    BY <2>1
  <2> QED
    BY <2>1, <2>2 DEF FrameLeads
<1>4. \A j \in 1 .. L + 1 : j = L + 1 \/ j = L \/ j \in 1 .. L - 1
  OBVIOUS
<1> DEFINE m == memo \cup {MemoKey(t[L + 1].store, t[L + 1].pending)}
<1>5. ASSUME NEW st, NEW p, MemoKey(st, p) \in m, Completable(ops, st, p)
      PROVE  \E j \in 1 .. L + 1 : t[j].store = st /\ t[j].pending = p
  <2>1. CASE MemoKey(st, p) \in memo
    <3>1. PICK j \in 1 .. L : s[j].store = st /\ s[j].pending = p
      BY <1>5, <2>1 DEF MemoSound
    <3>2. j \in 1 .. L + 1
      OBVIOUS
    <3> QED
      BY <3>1, <3>2
  <2>2. CASE MemoKey(st, p) = MemoKey(t[L + 1].store, t[L + 1].pending)
    <3>1. st = t[L + 1].store /\ p = t[L + 1].pending
      BY <2>2 DEF MemoKey
    <3>2. L + 1 \in 1 .. L + 1
      OBVIOUS
    <3> QED
      BY <3>1, <3>2
  <2> QED
    BY <1>5, <2>1, <2>2
<1> HIDE DEF m
<1>6. MemoSound(t, m)
  BY <1>5 DEF MemoSound
<1> QED
  BY <1>1, <1>2, <1>3, <1>4, <1>6 DEF m

\* A top frame that cannot be completed is no loss.
LEMMA BacktrackC ==
    ASSUME NEW s, NEW t, NEW L \in Nat, L > 1, Len(s) = L, Len(t) = L - 1,
           \A j \in 1 .. L : FrameLeads(s, j), MemoSound(s, memo),
           \A j \in 1 .. L - 1 : t[j] = s[j],
           ~Completable(ops, s[L].store, s[L].pending)
    PROVE  (\A j \in 1 .. L - 1 : FrameLeads(t, j)) /\ MemoSound(t, memo)
<1>1. ASSUME NEW j \in 1 .. L - 1 PROVE FrameLeads(t, j)
  <2>1. j \in 1 .. L /\ FrameLeads(s, j) /\ t[j] = s[j]
    OBVIOUS
  <2>2. CASE j = L - 1
    <3>1. j + 1 = L
      BY <2>2
    <3> QED
      BY <2>1, <3>1 DEF FrameLeads
  <2>3. CASE j # L - 1
    <3>1. j + 1 \in 1 .. L - 1 /\ j < Len(t)
      BY <2>3
    <3>2. t[j + 1] = s[j + 1]
      BY <3>1
    <3> QED
      BY <2>1, <3>1, <3>2 DEF FrameLeads
  <2> QED
    BY <2>2, <2>3
<1>2. ASSUME NEW st, NEW p, MemoKey(st, p) \in memo, Completable(ops, st, p)
      PROVE  \E j \in 1 .. L - 1 : t[j].store = st /\ t[j].pending = p
  <2>1. PICK j \in 1 .. L : s[j].store = st /\ s[j].pending = p
    BY <1>2 DEF MemoSound
  <2>2. j # L
    BY <1>2, <2>1
  <2>3. j \in 1 .. L - 1
    BY <2>2
  <2> QED
    BY <2>1, <2>3
<1> QED
  BY <1>1, <1>2 DEF MemoSound

\* A turn of the loop keeps CInv.
LEMMA SearchC == ASSUME IInv, CInv, Search PROVE CInv'
<1> DEFINE L == Len(stack)
<1>1. /\ stack # <<>> /\ StackOK(ops, stack) /\ verdict = "searching" /\ ops' = ops
      /\ stack[1].pending = DOMAIN ops /\ MemoSound(stack, memo)
      /\ \A j \in 1 .. L : FrameLeads(stack, j)
  BY DEF IInv, CInv, Search, Accept, Backtrack, Mismatch, DeadEnd, Place
<1>2. PICK S : stack \in Seq(S)
  BY <1>1 DEF StackOK
<1>3. L \in Nat \ {0} /\ L \in 1 .. L /\ Top = stack[L] /\ 1 \in 1 .. L
  BY <1>1, <1>2 DEF Top
<1>4. /\ FrameOK(ops, stack, L) /\ IsFrame(Top)
      /\ stack[1].store = EmptyStore
  BY <1>1, <1>3 DEF StackOK, FrameOK
<1>5. CASE Accept
  BY <1>5 DEF Accept, CInv
<1>6. CASE Backtrack
  <2>1. ~Completable(ops, stack[L].store, stack[L].pending)
    <3>1. FrameLeads(stack, L) /\ ~(L < L)
      BY <1>1, <1>3
    <3>2. stack[L].pending # {} /\ stack[L].left = {}
      BY <1>3, <1>6 DEF Backtrack
    <3> QED
      BY <3>1, <3>2 DEF FrameLeads
  <2>2. memo' = memo /\ stack' = SubSeq(stack, 1, L - 1)
    BY <1>6 DEF Backtrack
  <2>3. CASE L = 1
    <3>1. verdict' = "illegal"
      BY <1>6, <2>3 DEF Backtrack
    <3>2. ~Completable(ops, EmptyStore, DOMAIN ops)
      BY <1>1, <1>4, <2>1, <2>3
    <3> QED
      BY <1>1, <3>1, <3>2 DEF CInv
  <2>4. CASE L > 1
    <3>1. /\ stack' \in Seq(S) /\ Len(stack') = L - 1
          /\ \A j \in 1 .. L - 1 : stack'[j] = stack[j]
      BY <1>1, <1>2, <2>2, WithoutLast
    <3>2. verdict' = "searching"
      <4>1. Len(stack) # 1
        BY <1>3, <2>4
      <4> QED
        BY <1>1, <1>6, <4>1 DEF Backtrack
    <3>3. (\A j \in 1 .. L - 1 : FrameLeads(stack', j)) /\ MemoSound(stack', memo)
      BY <1>1, <1>3, <2>1, <2>4, <3>1, BacktrackC
    <3>4. stack'[1].pending = DOMAIN ops
      <4>1. 1 \in 1 .. L - 1
        BY <1>3, <2>4
      <4> QED
        BY <1>1, <3>1, <4>1
    <3>5. (\A j \in 1 .. Len(stack) : FrameLeads(stack, j))' /\ MemoSound(stack, memo)'
      BY <1>1, <2>2, <3>1, <3>3 DEF FrameLeads, MemoSound
    <3> QED
      BY <1>1, <3>2, <3>4, <3>5 DEF CInv
  <2>5. L = 1 \/ L > 1
    BY <1>3
  <2> QED
    BY <2>3, <2>4, <2>5
<1>7. ASSUME NEW i \in Top.left, Mismatch(i) \/ DeadEnd(i) \/ Place(i) PROVE CInv'
  <2> DEFINE s == Advanced(i)
  <2>1. /\ Len(s) = L
        /\ \A j \in 1 .. L : /\ s[j].store = stack[j].store
                             /\ s[j].pending = stack[j].pending
    BY <1>1, <1>2, <1>4, AdvancedKeeps
  <2>2. /\ \A j \in 1 .. L - 1 : s[j].left = stack[j].left
        /\ s[L].left = stack[L].left \ {i}
    BY <1>1, <1>2, <1>3, <1>4, AdvancedLeft
  <2>3. \E T : s \in Seq(T)
    BY <1>1, <1>2, <1>4, AdvancedKeeps
  <2> HIDE DEF s
  <2>4. i \in stack[L].pending /\ \A j \in 1 .. L : stack[L].pending \subseteq stack[j].pending
    BY <1>3, <1>4, <1>7 DEF FrameOK, Minimal
  <2>5. CASE Mismatch(i) \/ DeadEnd(i)
    <3>1. stack' = s /\ memo' = memo /\ verdict' = "searching"
      BY <1>1, <2>5 DEF Mismatch, DeadEnd, s
    <3>2. ~LeadsOn(ops, stack[L].store, stack[L].pending, i)
      <4>1. CASE Mismatch(i)
        BY <1>3, <4>1 DEF Mismatch, LeadsOn
      <4>2. CASE DeadEnd(i)
        <5>1. SUFFICES ASSUME LeadsOn(ops, stack[L].store, stack[L].pending, i)
                       PROVE  FALSE
          OBVIOUS
        <5>2. MemoKey(RefStore(stack[L].store, ops[i].o), stack[L].pending \ {i}) \in memo
          BY <1>3, <4>2 DEF DeadEnd
        <5>3. PICK j \in 1 .. L : stack[j].pending = stack[L].pending \ {i}
          BY <1>1, <5>1, <5>2 DEF MemoSound, LeadsOn
        <5> QED
          BY <2>4, <5>3
      <4> QED
        BY <2>5, <4>1, <4>2
    <3>3. (\A j \in 1 .. L : FrameLeads(s, j)) /\ MemoSound(s, memo)
      BY <1>1, <1>3, <2>1, <2>2, <3>2, AdvanceC
    <3>4. (\A j \in 1 .. Len(stack) : FrameLeads(stack, j))' /\ MemoSound(stack, memo)'
      BY <1>1, <2>1, <3>1, <3>3 DEF FrameLeads, MemoSound
    <3>5. stack'[1].pending = DOMAIN ops
      BY <1>1, <1>3, <2>1, <3>1
    <3> QED
      BY <1>1, <3>1, <3>4, <3>5 DEF CInv
  <2>6. CASE Place(i) /\ verdict' = "undetermined"
    BY <2>6 DEF CInv
  <2>7. CASE Place(i) /\ verdict' # "undetermined"
    <3> DEFINE f == Frame(ops, RefStore(Top.store, ops[i].o), Top.pending \ {i},
                          Append(Top.path, i))
    <3>1. /\ stack' = Append(s, f) /\ verdict' = "searching"
          /\ memo' = memo \cup {MemoKey(RefStore(Top.store, ops[i].o), Top.pending \ {i})}
      BY <1>1, <2>7 DEF Place, s
    <3>2. /\ f.store = RefStore(stack[L].store, ops[i].o)
          /\ f.pending = stack[L].pending \ {i} /\ f.left = Minimal(ops, f.pending)
      BY <1>3 DEF Frame
    <3> HIDE DEF f
    <3> DEFINE t == Append(s, f)
    <3>3. Len(t) = L + 1 /\ t[L + 1] = f /\ \A j \in 1 .. L : t[j] = s[j]
      BY <2>1, <2>3
    <3> HIDE DEF t
    <3>4. /\ \A j \in 1 .. L : t[j].store = stack[j].store /\ t[j].pending = stack[j].pending
          /\ \A j \in 1 .. L - 1 : t[j].left = stack[j].left
          /\ t[L].left = stack[L].left \ {i}
          /\ t[L + 1].store = RefStore(stack[L].store, ops[i].o)
          /\ t[L + 1].pending = stack[L].pending \ {i}
          /\ t[L + 1].left = Minimal(ops, t[L + 1].pending)
      <4>1. \A j \in 1 .. L : /\ t[j].store = stack[j].store
                              /\ t[j].pending = stack[j].pending
        BY <2>1, <3>3
      <4>2. \A j \in 1 .. L - 1 : t[j].left = stack[j].left
        <5>1. \A j \in 1 .. L - 1 : j \in 1 .. L
          BY <1>3
        <5> QED
          BY <2>2, <3>3, <5>1
      <4>3. t[L].left = stack[L].left \ {i}
        BY <1>3, <2>2, <3>3
      <4> QED
        BY <3>2, <3>3, <4>1, <4>2, <4>3
    <3>5. /\ \A j \in 1 .. L + 1 : FrameLeads(t, j)
          /\ MemoSound(t, memo \cup {MemoKey(t[L + 1].store, t[L + 1].pending)})
      BY <1>1, <1>3, <3>3, <3>4, PlaceC
    <3>6. memo' = memo \cup {MemoKey(t[L + 1].store, t[L + 1].pending)} /\ stack' = t
      BY <1>3, <3>1, <3>4 DEF t
    <3>7. (\A j \in 1 .. Len(stack) : FrameLeads(stack, j))' /\ MemoSound(stack, memo)'
      BY <1>1, <3>3, <3>5, <3>6 DEF FrameLeads, MemoSound
    <3>8. stack'[1].pending = DOMAIN ops
      BY <1>1, <1>3, <3>4, <3>6
    <3> QED
      BY <1>1, <3>1, <3>7, <3>8 DEF CInv
  <2> QED
    BY <1>7, <2>5, <2>6, <2>7
<1> QED
  BY <1>5, <1>6, <1>7 DEF Search

\* CInv is inductive.
LEMMA StepC == IInv /\ CInv /\ [Next]_vars => CInv'
<1> SUFFICES ASSUME IInv, CInv, [Next]_vars PROVE CInv'
  OBVIOUS
<1>1. CASE UNCHANGED oracleVars
  BY <1>1 DEF CInv, oracleVars, FrameLeads, MemoSound
<1>2. CASE StopAndCheck
  BY <1>2, StartC DEF StopAndCheck
<1>3. CASE Search
  BY <1>3, SearchC
<1> QED
  BY <1>1, <1>2, <1>3 DEF Next, vars

\* What the oracle calls illegal is: no ordering of the history with any run of
\* stores is a linearization, so forgetting the explored dead ends would have
\* found none either (linearizability.py, check).
THEOREM IllegalHasNoWitness ==
    Spec => [](verdict = "illegal" =>
                 \A order \in Seq(DOMAIN ops) : \A run : ~Witness(order, run))
<1>1. CInv => (verdict = "illegal" =>
                 \A order \in Seq(DOMAIN ops) : \A run : ~Witness(order, run))
  BY DEF CInv, Completable, Completes, Witness
<1> QED
  BY <1>1, InitOK, StepOK, InitC, StepC, PTL DEF Spec

-----------------------------------------------------------------------------
(***************************************************************************)
(* Folds.  FoldLeft is defined by a recursive function over sets of        *)
(* indices, by CHOOSE; that such a function exists, and that it goes       *)
(* through the elements one by one, is proved here by a least              *)
(* counterexample.                                                         *)
(***************************************************************************)
\* A set of numbers that is not empty has a least element.
LEMMA LeastNumber ==
    ASSUME NEW S \in SUBSET Nat, S # {}
    PROVE  \E x \in S : \A y \in S : x <= y
<1> DEFINE R == OpToRel(<, Nat)
<1>1. IsWellFoundedOn(R, Nat)
  BY NatLessThanWellFounded
<1>2. \A x, y \in Nat : <<y, x>> \in R <=> y < x
  BY Zenon DEF OpToRel
<1> HIDE DEF R
<1>3. PICK x \in S : \A y \in S : ~(<<y, x>> \in R)
  BY <1>1, WFMin
<1>4. \A y \in S : y \in Nat /\ x \in Nat /\ ~(y < x)
  BY <1>2, <1>3
<1>5. \A y \in S : x <= y
  BY <1>4
<1> QED  BY <1>5

\* g folds step over the elements of s whose places are in a set, from the right.
Folds1(g, X, step, base, s, n) ==
    /\ g \in [SUBSET (1 .. n) -> X]
    /\ \A T \in SUBSET (1 .. n) :
         g[T] = IF T = {} THEN base ELSE step[<<g[T \ {Max(T)}], s[Max(T)]>>]

\* What Max, the community modules' choice, is.
LEMMA MaxOf ==
    ASSUME NEW n \in Nat, NEW T \in SUBSET (1 .. n), n \in T
    PROVE  Max(T) = n
<1>1. \A y \in T : n >= y
  OBVIOUS
<1>2. \A x \in T : (\A y \in T : x >= y) => x = n
  <2> TAKE x \in T
  <2>1. x \in 1 .. n
    OBVIOUS
  <2> QED
    BY <2>1
<1> QED
  BY <1>1, <1>2 DEF Max

\* A set of indices has a last one.
LEMMA MaxIn ==
    ASSUME NEW n \in Nat, NEW T \in SUBSET (1 .. n), T # {}
    PROVE  Max(T) \in T
<1> DEFINE B == {m \in Nat : T \subseteq 1 .. m}
<1>1. n \in B
  OBVIOUS
<1>2. PICK m \in B : \A y \in B : m <= y
  BY <1>1, LeastNumber
<1>3. m \in T
  <2> SUFFICES ASSUME m \notin T PROVE FALSE
    OBVIOUS
  <2>1. m \in Nat /\ T \subseteq 1 .. m
    BY <1>2
  <2>2. m # 0
    <3>1. PICK t \in T : t \in 1 .. m
      BY <2>1
    <3> QED
      BY <2>1, <3>1
  <2>3. T \subseteq 1 .. m - 1
    BY <2>1, <2>2
  <2>4. m - 1 \in B
    BY <2>1, <2>2, <2>3
  <2> QED
    BY <1>2, <2>1, <2>4
<1> QED
  BY <1>2, <1>3, MaxOf

\* A fold of one element more, from one that is defined.
LEMMA FoldExtends ==
    ASSUME NEW X, NEW E, NEW step \in [X \X E -> X], NEW base \in X, NEW s \in Seq(E),
           NEW n \in Nat, n + 1 \in DOMAIN s, NEW g, Folds1(g, X, step, base, s, n)
    PROVE  \E h : Folds1(h, X, step, base, s, n + 1)
<1> DEFINE h == [T \in SUBSET (1 .. n + 1) |->
                   IF n + 1 \in T THEN step[<<g[T \ {n + 1}], s[n + 1]>>] ELSE g[T]]
<1>1. /\ g \in [SUBSET (1 .. n) -> X]
      /\ \A T \in SUBSET (1 .. n) :
           g[T] = IF T = {} THEN base ELSE step[<<g[T \ {Max(T)}], s[Max(T)]>>]
  BY DEF Folds1
<1>2. s[n + 1] \in E
  OBVIOUS
<1>3. ASSUME NEW T \in SUBSET (1 .. n + 1), n + 1 \in T
      PROVE  /\ T \ {n + 1} \in SUBSET (1 .. n) /\ h[T] \in X
             /\ h[T] = step[<<h[T \ {Max(T)}], s[Max(T)]>>]
  <2>1. T \ {n + 1} \in SUBSET (1 .. n)
    OBVIOUS
  <2>2. Max(T) = n + 1
    BY <1>3, MaxOf
  <2>3. h[T] = step[<<g[T \ {n + 1}], s[n + 1]>>]
    BY <1>3
  <2>4. T \ {n + 1} \in SUBSET (1 .. n + 1) /\ n + 1 \notin T \ {n + 1}
    BY <2>1
  <2>5. h[T \ {n + 1}] = g[T \ {n + 1}]
    BY <2>4
  <2>6. g[T \ {n + 1}] \in X
    BY <1>1, <2>1
  <2> HIDE DEF h
  <2>7. h[T] \in X
    BY <1>2, <2>3, <2>6
  <2> QED
    BY <2>1, <2>2, <2>3, <2>5, <2>7
<1>4. ASSUME NEW T \in SUBSET (1 .. n + 1), n + 1 \notin T
      PROVE  /\ h[T] \in X
             /\ h[T] = IF T = {} THEN base ELSE step[<<h[T \ {Max(T)}], s[Max(T)]>>]
  <2>1. T \in SUBSET (1 .. n)
    BY <1>4
  <2>2. h[T] = g[T]
    BY <1>4
  <2>3. T \ {Max(T)} \in SUBSET (1 .. n + 1) /\ n + 1 \notin T \ {Max(T)}
    BY <1>4
  <2>4. h[T \ {Max(T)}] = g[T \ {Max(T)}]
    BY <2>3
  <2> HIDE DEF h
  <2> QED
    BY <1>1, <2>1, <2>2, <2>4
<1>5. h \in [SUBSET (1 .. n + 1) -> X]
  <2>1. \A T \in SUBSET (1 .. n + 1) : h[T] \in X
    BY <1>3, <1>4
  <2> QED
    BY <2>1
<1> HIDE DEF h
<1>6. \A T \in SUBSET (1 .. n + 1) :
        h[T] = IF T = {} THEN base ELSE step[<<h[T \ {Max(T)}], s[Max(T)]>>]
  BY <1>3, <1>4
<1> QED
  BY <1>5, <1>6 DEF Folds1

\* The recursion of FoldLeft has a solution.
LEMMA FoldExists ==
    ASSUME NEW X, NEW E, NEW step \in [X \X E -> X], NEW base \in X, NEW s \in Seq(E)
    PROVE  \E g : Folds1(g, X, step, base, s, Len(s))
<1> DEFINE Bad == {n \in 0 .. Len(s) : ~ \E g : Folds1(g, X, step, base, s, n)}
<1>0. Len(s) \in Nat /\ DOMAIN s = 1 .. Len(s)
  OBVIOUS
<1>1. 0 \notin Bad
  <2> DEFINE g == [T \in SUBSET (1 .. 0) |-> base]
  <2>1. g \in [SUBSET (1 .. 0) -> X]
    OBVIOUS
  <2>2. \A T \in SUBSET (1 .. 0) : T = {} /\ g[T] = base
    OBVIOUS
  <2> HIDE DEF g
  <2>3. Folds1(g, X, step, base, s, 0)
    BY <2>1, <2>2 DEF Folds1
  <2> QED
    BY <2>3
<1>2. ASSUME NEW n \in Bad, \A m \in Bad : n <= m PROVE FALSE
  <2>1. n \in Nat /\ n # 0 /\ n <= Len(s)
    BY <1>0, <1>1
  <2>2. n - 1 \in 0 .. Len(s) /\ n - 1 \notin Bad
    <3>1. n - 1 \in 0 .. Len(s) /\ ~(n <= n - 1)
      BY <1>0, <2>1
    <3> HIDE DEF Bad
    <3> QED
      BY <1>2, <3>1
  <2>3. PICK g : Folds1(g, X, step, base, s, n - 1)
    BY <2>2
  <2> DEFINE k == n - 1
  <2>4. k \in Nat /\ k + 1 \in DOMAIN s /\ k + 1 = n /\ Folds1(g, X, step, base, s, k)
    BY <1>0, <2>1, <2>3
  <2> HIDE DEF k, Bad
  <2>5. \E h : Folds1(h, X, step, base, s, k + 1)
    BY <2>4, FoldExtends
  <2> QED
    BY <2>4, <2>5 DEF Bad
<1>3. Bad = {}
  <2> SUFFICES ASSUME Bad # {} PROVE FALSE
    OBVIOUS
  <2>1. Bad \in SUBSET Nat
    BY <1>0
  <2> HIDE DEF Bad
  <2>2. PICK n \in Bad : \A m \in Bad : n <= m
    BY <2>1, LeastNumber
  <2> QED
    BY <1>2, <2>2
<1> QED
  BY <1>0, <1>3

FoldsTo(X, step, base, s, r) ==
    \E h \in [0 .. Len(s) -> X] :
      /\ h[0] = base
      /\ \A k \in 1 .. Len(s) : h[k] = step[<<h[k - 1], s[k]>>]
      /\ r = h[Len(s)]

\* f folds step as long as it stays in X, which it then does.
FoldsIn(f, X, step, base, s) ==
    /\ f[{}] = base
    /\ \A T \in SUBSET (1 .. Len(s)) :
         T # {} /\ f[T \ {Max(T)}] \in X => f[T] = step[<<f[T \ {Max(T)}], s[Max(T)]>>]

\* Whatever solves the recursion of FoldLeft goes through the elements in order.
LEMMA FoldsInFolds ==
    ASSUME NEW X, NEW E, NEW step \in [X \X E -> X], NEW base \in X, NEW s \in Seq(E),
           NEW f, FoldsIn(f, X, step, base, s)
    PROVE  FoldsTo(X, step, base, s, f[1 .. Len(s)])
<1> DEFINE n == Len(s)
           Bad == {k \in 0 .. n : f[1 .. k] \notin X}
<1>0. n \in Nat /\ DOMAIN s = 1 .. n
  OBVIOUS
<1>1. /\ f[{}] = base
      /\ \A T \in SUBSET (1 .. n) :
           T # {} /\ f[T \ {Max(T)}] \in X => f[T] = step[<<f[T \ {Max(T)}], s[Max(T)]>>]
  BY DEF FoldsIn
<1> HIDE DEF n
<1>2. ASSUME NEW k \in 1 .. n, f[1 .. (k - 1)] \in X
      PROVE  f[1 .. k] = step[<<f[1 .. (k - 1)], s[k]>>] /\ f[1 .. k] \in X
  <2>0. k \in Nat /\ 1 <= k /\ k <= n
    BY <1>0
  <2>1. 1 .. k \in SUBSET (1 .. n) /\ k \in 1 .. k /\ 1 .. k # {}
    <3>1. k \in 1 .. k
      BY <2>0
    <3>2. 1 .. k \subseteq 1 .. n
      BY <1>0, <2>0
    <3> QED
      BY <3>1, <3>2
  <2>2. Max(1 .. k) = k
    BY <2>0, <2>1, MaxOf
  <2>3. (1 .. k) \ {k} = 1 .. (k - 1)
    BY <2>0
  <2>4. f[1 .. k] = step[<<f[1 .. (k - 1)], s[k]>>]
    BY <1>1, <1>2, <2>1, <2>2, <2>3
  <2>5. s[k] \in E
    BY <1>0
  <2> QED
    BY <1>2, <2>4, <2>5
<1>3. f[1 .. 0] = base
  <2>1. 1 .. 0 = {}
    OBVIOUS
  <2> QED
    BY <1>1, <2>1
<1>4. Bad = {}
  <2> SUFFICES ASSUME Bad # {} PROVE FALSE
    OBVIOUS
  <2>1. Bad \in SUBSET Nat
    BY <1>0
  <2>2. \A k \in 0 .. n : k \in Bad <=> f[1 .. k] \notin X
    OBVIOUS
  <2>3. Bad \subseteq 0 .. n
    OBVIOUS
  <2> HIDE DEF Bad
  <2>4. PICK k \in Bad : \A m \in Bad : k <= m
    BY <2>1, LeastNumber
  <2>5. k \in 0 .. n /\ k # 0
    BY <1>0, <1>3, <2>2, <2>3, <2>4
  <2>6. k \in 1 .. n /\ k - 1 \in 0 .. n /\ ~(k <= k - 1)
    BY <1>0, <2>5
  <2>7. f[1 .. (k - 1)] \in X
    BY <2>2, <2>4, <2>6
  <2>8. f[1 .. k] \in X
    BY <1>2, <2>6, <2>7
  <2> QED
    BY <2>2, <2>4, <2>5, <2>8
<1>5. \A k \in 0 .. n : f[1 .. k] \in X
  BY <1>4
<1> DEFINE h == [k \in 0 .. n |-> f[1 .. k]]
<1>6. h \in [0 .. n -> X] /\ h[0] = base /\ f[1 .. n] = h[n]
  BY <1>0, <1>3, <1>5
<1>7. ASSUME NEW k \in 1 .. n PROVE h[k] = step[<<h[k - 1], s[k]>>]
  <2>1. k - 1 \in 0 .. n /\ k \in 0 .. n
    BY <1>0
  <2> QED
    BY <1>2, <1>5, <2>1
<1> HIDE DEF h
<1> QED
  BY <1>6, <1>7 DEF FoldsTo, n

\* What AfterApplying does with one command.
Feed(acc, cmd) ==
    LET a == Apply(acc.image, cmd)
    IN [image |-> a.image, rows |-> OnApply(acc.rows, cmd, a.result)]

Fed == [image : Images, rows : Seq(Rows)]
FeedStep == [p \in Fed \X Requests |-> Feed(p[1], p[2])]

\* AfterApplying feeds the requests one after the other.
LEMMA AfterApplyingFolds ==
    ASSUME NEW start \in Fed, NEW cmds \in Seq(Requests), FeedStep \in [Fed \X Requests -> Fed]
    PROVE  FoldsTo(Fed, FeedStep, start, cmds, AfterApplying(start, cmds))
<1> DEFINE D == DOMAIN cmds
           Rec(g) == g = [T \in SUBSET D |->
                            IF T = {} THEN start
                            ELSE Feed(g[T \ {Max(T)}], cmds[Max(T)])]
<1>1. AfterApplying(start, cmds) = (CHOOSE g : Rec(g))[D]
  BY DEF AfterApplying, FoldLeft, MapThenFoldSet, Feed
<1>2. PICK g : Folds1(g, Fed, FeedStep, start, cmds, Len(cmds))
  BY FoldExists
<1>3. D = 1 .. Len(cmds) /\ Len(cmds) \in Nat /\ \A i \in D : cmds[i] \in Requests
  OBVIOUS
<1> HIDE DEF D
<1>4. \A T \in SUBSET D : T # {} => Max(T) \in D /\ T \ {Max(T)} \in SUBSET D
  BY <1>3, MaxIn
<1>5. ASSUME NEW a \in Fed, NEW T \in SUBSET D, T # {}
      PROVE  Feed(a, cmds[Max(T)]) = FeedStep[<<a, cmds[Max(T)]>>]
  BY <1>3, <1>4, <1>5 DEF FeedStep
<1>6. Rec(g)
  <2>1. g \in [SUBSET D -> Fed]
    BY <1>2, <1>3 DEF Folds1
  <2>2. ASSUME NEW T \in SUBSET D
        PROVE  g[T] = IF T = {} THEN start ELSE Feed(g[T \ {Max(T)}], cmds[Max(T)])
    BY <1>2, <1>3, <1>4, <1>5, <2>1, <2>2 DEF Folds1
  <2> QED
    BY <2>1, <2>2
<1>7. ASSUME NEW f, Rec(f) PROVE FoldsTo(Fed, FeedStep, start, cmds, f[D])
  <2>1. FoldsIn(f, Fed, FeedStep, start, cmds)
    <3>1. \A T \in SUBSET D :
            f[T] = IF T = {} THEN start ELSE Feed(f[T \ {Max(T)}], cmds[Max(T)])
      BY <1>7
    <3> QED
      BY <1>3, <1>5, <3>1 DEF FoldsIn
  <2> QED
    BY <1>3, <2>1, FoldsInFolds
<1>8. Rec(CHOOSE h : Rec(h))
  <2> HIDE DEF Rec
  <2> QED
    BY <1>6
<1> QED
  BY <1>1, <1>7, <1>8

\* What a fold gives is of the type of its steps.
LEMMA FoldsToType ==
    ASSUME NEW X, NEW E, NEW step, NEW base, NEW s \in Seq(E), NEW r,
           FoldsTo(X, step, base, s, r)
    PROVE  r \in X
<1>1. Len(s) \in 0 .. Len(s)
  OBVIOUS
<1> QED
  BY <1>1 DEF FoldsTo

\* A fold of nothing gives what it started from.
LEMMA FoldsToEmpty ==
    ASSUME NEW X, NEW step, NEW base, NEW s, Len(s) = 0, NEW r,
           FoldsTo(X, step, base, s, r)
    PROVE  r = base
  BY DEF FoldsTo

\* h is what a fold of the first n elements of s goes through.
Runs(h, step, base, s, n) ==
    h[0] = base /\ \A k \in 1 .. n : h[k] = step[<<h[k - 1], s[k]>>]

\* Two runs of the same steps are the same.
LEMMA RunsAgree ==
    ASSUME NEW step, NEW base, NEW s, NEW n \in Nat,
           NEW h, Runs(h, step, base, s, n), NEW g, Runs(g, step, base, s, n)
    PROVE  h[n] = g[n]
<1> DEFINE Bad == {k \in 0 .. n : h[k] # g[k]}
<1>1. \A k \in 0 .. n : k \in Bad <=> h[k] # g[k]
  OBVIOUS
<1>2. Bad \in SUBSET Nat /\ Bad \subseteq 0 .. n
  OBVIOUS
<1> HIDE DEF Bad
<1>3. CASE Bad = {}
  BY <1>1, <1>3
<1>4. CASE Bad # {}
  <2>1. PICK k \in Bad : \A m \in Bad : k <= m
    BY <1>2, <1>4, LeastNumber
  <2>2. k \in 1 .. n /\ k - 1 \in 0 .. n /\ ~(k <= k - 1)
    <3>1. k # 0 /\ k \in 0 .. n
      BY <1>1, <1>2, <2>1 DEF Runs
    <3> QED
      BY <3>1
  <2>3. h[k - 1] = g[k - 1]
    BY <1>1, <2>1, <2>2
  <2>4. h[k] = step[<<h[k - 1], s[k]>>] /\ g[k] = step[<<g[k - 1], s[k]>>]
    BY <2>2 DEF Runs
  <2>5. h[k] # g[k]
    BY <1>1, <1>2, <2>1
  <2> QED
    BY <2>3, <2>4, <2>5
<1> QED
  BY <1>3, <1>4

\* A fold of one element more is one step more.
LEMMA FoldsToAppend ==
    ASSUME NEW X, NEW E, NEW step, NEW base, NEW s \in Seq(E), NEW e \in E, NEW r, NEW q,
           FoldsTo(X, step, base, s, r), FoldsTo(X, step, base, Append(s, e), q)
    PROVE  q = step[<<r, e>>]
<1> DEFINE n == Len(s)
           t == Append(s, e)
<1>0. n \in Nat /\ Len(t) = n + 1 /\ t[n + 1] = e /\ \A k \in 1 .. n : t[k] = s[k]
  OBVIOUS
<1>1. PICK h \in [0 .. n -> X] :
        h[0] = base /\ (\A k \in 1 .. n : h[k] = step[<<h[k - 1], s[k]>>]) /\ r = h[n]
  BY DEF FoldsTo
<1>2. PICK g \in [0 .. n + 1 -> X] :
        /\ g[0] = base /\ (\A k \in 1 .. n + 1 : g[k] = step[<<g[k - 1], t[k]>>])
        /\ q = g[n + 1]
  BY <1>0 DEF FoldsTo
<1> HIDE DEF t
<1>3. \A k \in 1 .. n : g[k] = step[<<g[k - 1], s[k]>>]
  BY <1>0, <1>2
<1>4. h[n] = g[n]
  <2>1. Runs(h, step, base, s, n)
    BY <1>1 DEF Runs
  <2>2. Runs(g, step, base, s, n)
    BY <1>2, <1>3 DEF Runs
  <2> HIDE DEF n
  <2> QED
    BY <1>0, <2>1, <2>2, RunsAgree
<1>5. n + 1 \in 1 .. n + 1 /\ n + 1 - 1 = n
  BY <1>0
<1> QED
  BY <1>0, <1>1, <1>2, <1>4, <1>5

-----------------------------------------------------------------------------
\* A state machine keeps its type.
LEMMA ExecuteTyped ==
    ASSUME NEW store \in Stores, NEW o \in Operations
    PROVE  Execute(store, o).store \in Stores /\ Execute(store, o).result \in Results
<1>1. o.key \in Keys /\ o.op \in {"put", "get", "cas"} /\ (o.op # "get" => o.value \in Values)
  BY DEF Operations
<1>2. Execute(store, o).result \in Results
  BY <1>1 DEF Execute, Stores, Results, Stored
<1>3. Execute(store, o).store \in Stores
  <2>1. CASE Takes(store, o)
    <3>1. o.value \in Stored
      BY <1>1, <2>1 DEF Takes, Stored
    <3>2. Execute(store, o).store = [store EXCEPT ![o.key] = o.value]
      BY <2>1 DEF Execute
    <3> QED
      BY <1>1, <3>1, <3>2 DEF Stores
  <2>2. CASE ~Takes(store, o)
    BY <2>2 DEF Execute
  <2> QED
    BY <2>1, <2>2
<1> QED
  BY <1>2, <1>3

\* The image once cmd is executed.
Executed(img, cmd) ==
    [store |-> Execute(img.store, cmd.o).store,
     sessions |-> [img.sessions EXCEPT ![cmd.client] =
                     [req |-> cmd.req, result |-> Execute(img.store, cmd.o).result]]]

\* A request that takes effect gives a state machine.
LEMMA ExecutedTyped ==
    ASSUME NEW img \in Images, NEW cmd \in Requests
    PROVE  Executed(img, cmd) \in Images
<1>1. img.store \in Stores /\ img.sessions \in [Clients -> [req : Nat, result : Results]]
  BY DEF Images
<1>2. cmd.client \in Clients /\ cmd.req \in Nat /\ cmd.o \in Operations
  BY DEF Requests
<1>3. /\ Execute(img.store, cmd.o).store \in Stores
      /\ Execute(img.store, cmd.o).result \in Results
  BY <1>1, <1>2, ExecuteTyped
<1>4. [req |-> cmd.req, result |-> Execute(img.store, cmd.o).result]
        \in [req : Nat, result : Results]
  BY <1>2, <1>3
<1> QED
  BY <1>1, <1>2, <1>3, <1>4 DEF Executed, Images

\* What apply does, for a duplicate and otherwise.
LEMMA ApplyIs ==
    ASSUME NEW img, NEW cmd
    PROVE  /\ Duplicate(img, cmd) =>
                /\ Apply(img, cmd).image = img
                /\ Apply(img, cmd).result = img.sessions[cmd.client].result
           /\ ~Duplicate(img, cmd) =>
                /\ Apply(img, cmd).image = Executed(img, cmd)
                /\ Apply(img, cmd).result = Execute(img.store, cmd.o).result
  BY DEF Apply, Executed

\* apply gives a state machine and a result.
LEMMA ApplyTyped ==
    ASSUME NEW img \in Images, NEW cmd \in Requests
    PROVE  Apply(img, cmd).image \in Images /\ Apply(img, cmd).result \in Results
<1>1. img.sessions[cmd.client].result \in Results
  BY DEF Images, Requests
<1>2. Execute(img.store, cmd.o).result \in Results
  BY ExecuteTyped DEF Images, Requests
<1> QED
  BY <1>1, <1>2, ExecutedTyped, ApplyIs

\* The first store and the first state machine are such.
LEMMA EmptyTyped == EmptyStore \in Stores /\ EmptyImage \in Images
  BY DEF EmptyStore, EmptyImage, Stores, Images, Stored, Results

\* What an answer makes of one row.
Answered(row, cmd, result, time) ==
    IF Command(row) = cmd /\ ~Completed(row)
    THEN [row EXCEPT !.returned = time, !.observed = result] ELSE row

\* An answer completes one row at most and leaves the number of rows.
LEMMA OnApplyRows ==
    ASSUME NEW rows \in Seq(Rows), NEW cmd, NEW result \in Results
    PROVE  /\ OnApply(rows, cmd, result) \in Seq(Rows)
           /\ Len(OnApply(rows, cmd, result)) = Len(rows)
           /\ \A i \in DOMAIN rows :
                OnApply(rows, cmd, result)[i] = Answered(rows[i], cmd, result, Len(rows))
<1> DEFINE new == [i \in DOMAIN rows |-> Answered(rows[i], cmd, result, Len(rows))]
<1>1. OnApply(rows, cmd, result) = new
  BY DEF OnApply, Answered
<1>2. Len(rows) \in Nat /\ DOMAIN rows = 1 .. Len(rows)
  OBVIOUS
<1>3. \A i \in DOMAIN rows : new[i] \in Rows
  <2> TAKE i \in DOMAIN rows
  <2>1. rows[i] \in Rows
    OBVIOUS
  <2>2. [rows[i] EXCEPT !.returned = Len(rows), !.observed = result] \in Rows
    BY <1>2, <2>1 DEF Rows
  <2> QED
    BY <2>1, <2>2 DEF Answered
<1>4. new \in Seq(Rows) /\ Len(new) = Len(rows)
  BY <1>2, <1>3
<1> QED
  BY <1>1, <1>4

\* A step of AfterApplying keeps its types.
LEMMA FeedTyped == FeedStep \in [Fed \X Requests -> Fed]
<1>1. ASSUME NEW acc \in Fed, NEW cmd \in Requests PROVE Feed(acc, cmd) \in Fed
  <2>1. acc.image \in Images /\ acc.rows \in Seq(Rows)
    BY DEF Fed
  <2>2. Apply(acc.image, cmd).image \in Images /\ Apply(acc.image, cmd).result \in Results
    BY <2>1, ApplyTyped
  <2>3. OnApply(acc.rows, cmd, Apply(acc.image, cmd).result) \in Seq(Rows)
    BY <2>1, <2>2, OnApplyRows
  <2> QED
    BY <2>2, <2>3 DEF Feed, Fed
<1> QED
  BY <1>1 DEF FeedStep

\* Applying nothing, and applying one command more.
LEMMA AfterNone ==
    ASSUME NEW start \in Fed, NEW cmds \in Seq(Requests), Len(cmds) = 0
    PROVE  AfterApplying(start, cmds) = start
<1>1. FoldsTo(Fed, FeedStep, start, cmds, AfterApplying(start, cmds))
  BY FeedTyped, AfterApplyingFolds
<1> QED
  BY <1>1, FoldsToEmpty

\* One request more is fed after the others.
LEMMA AfterOneMore ==
    ASSUME NEW start \in Fed, NEW cmds \in Seq(Requests), NEW cmd \in Requests
    PROVE  /\ AfterApplying(start, cmds) \in Fed
           /\ AfterApplying(start, Append(cmds, cmd))
                = Feed(AfterApplying(start, cmds), cmd)
<1> DEFINE a == AfterApplying(start, cmds)
           b == AfterApplying(start, Append(cmds, cmd))
<1>1. FoldsTo(Fed, FeedStep, start, cmds, a)
  BY FeedTyped, AfterApplyingFolds
<1>2. Append(cmds, cmd) \in Seq(Requests)
  OBVIOUS
<1>3. FoldsTo(Fed, FeedStep, start, Append(cmds, cmd), b)
  BY <1>2, FeedTyped, AfterApplyingFolds
<1> HIDE DEF a, b
<1>4. a \in Fed
  BY <1>1, FoldsToType
<1>5. b = FeedStep[<<a, cmd>>]
  BY <1>1, <1>3, FoldsToAppend
<1>6. FeedStep[<<a, cmd>>] = Feed(a, cmd)
  BY <1>4 DEF FeedStep
<1> QED
  BY <1>4, <1>5, <1>6 DEF a, b

\* F is what a server's image and the rows go through while it applies the entries
\* p + 1 .. upto of lg.
FedRun(F, start, lg, p, upto) ==
    /\ F[p] = start
    /\ \A k \in p .. upto : F[k] \in Fed
    /\ \A k \in p + 1 .. upto : F[k] = Feed(F[k - 1], lg[k])

\* A piece of the log that goes one entry further.
LEMMA SubSeqGrows ==
    ASSUME NEW lg \in Seq(Requests), NEW p \in Nat, NEW k \in p + 1 .. Len(lg)
    PROVE  /\ SubSeq(lg, p + 1, k - 1) \in Seq(Requests)
           /\ lg[k] \in Requests
           /\ SubSeq(lg, p + 1, k) = Append(SubSeq(lg, p + 1, k - 1), lg[k])
<1> DEFINE a == SubSeq(lg, p + 1, k - 1)
           b == SubSeq(lg, p + 1, k)
<1>0. Len(lg) \in Nat /\ k \in Nat /\ k \in 1 .. Len(lg) /\ p + 1 <= k
  OBVIOUS
<1>1. a \in Seq(Requests) /\ Len(a) = k - 1 - p
  BY <1>0
<1>2. b \in Seq(Requests) /\ Len(b) = k - p
  BY <1>0
<1>3. lg[k] \in Requests
  BY <1>0
<1>4. \A i \in 1 .. k - 1 - p : a[i] = lg[p + i]
  BY <1>0
<1>5. \A i \in 1 .. k - p : b[i] = lg[p + i]
  BY <1>0
<1> HIDE DEF a, b
<1>6. Append(a, lg[k]) \in Seq(Requests) /\ Len(Append(a, lg[k])) = k - p
  BY <1>0, <1>1, <1>3
<1>7. \A i \in 1 .. k - p : Append(a, lg[k])[i] = b[i]
  <2> TAKE i \in 1 .. k - p
  <2>1. CASE i = k - p
    BY <1>0, <1>1, <1>5, <2>1
  <2>2. CASE i # k - p
    <3>1. i \in 1 .. k - 1 - p
      BY <1>0, <2>2
    <3> QED
      BY <1>1, <1>3, <1>4, <1>5, <3>1
  <2> QED
    BY <2>1, <2>2
<1>8. b = Append(a, lg[k])
  BY <1>2, <1>6, <1>7, SeqEqual
<1> QED
  BY <1>1, <1>3, <1>8 DEF a, b

\* What _set_commit_index goes through on its way.
LEMMA AfterApplyingRun ==
    ASSUME NEW start \in Fed, NEW lg \in Seq(Requests), NEW p \in Nat,
           NEW upto \in p .. Len(lg)
    PROVE  \E F : /\ FedRun(F, start, lg, p, upto)
                  /\ F[upto] = AfterApplying(start, SubSeq(lg, p + 1, upto))
<1> DEFINE F == [k \in p .. upto |-> AfterApplying(start, SubSeq(lg, p + 1, k))]
<1>0. upto \in Nat /\ p <= upto /\ Len(lg) \in Nat /\ upto <= Len(lg)
  OBVIOUS
<1>1. F[p] = start
  <2>1. SubSeq(lg, p + 1, p) \in Seq(Requests) /\ Len(SubSeq(lg, p + 1, p)) = 0
    BY <1>0
  <2>2. F[p] = AfterApplying(start, SubSeq(lg, p + 1, p))
    BY <1>0
  <2> HIDE DEF F
  <2> QED
    BY <2>1, <2>2, AfterNone
<1>2. ASSUME NEW k \in p + 1 .. upto
      PROVE  F[k] = Feed(F[k - 1], lg[k]) /\ F[k - 1] \in Fed /\ F[k] \in Fed
  <2>1. k \in p + 1 .. Len(lg) /\ k - 1 \in p .. upto /\ k \in p .. upto
    BY <1>0
  <2>2. /\ SubSeq(lg, p + 1, k - 1) \in Seq(Requests) /\ lg[k] \in Requests
        /\ SubSeq(lg, p + 1, k) = Append(SubSeq(lg, p + 1, k - 1), lg[k])
    BY <2>1, SubSeqGrows
  <2>3. /\ F[k] = AfterApplying(start, SubSeq(lg, p + 1, k))
        /\ F[k - 1] = AfterApplying(start, SubSeq(lg, p + 1, k - 1))
    BY <2>1
  <2> HIDE DEF F
  <2> DEFINE cmds == SubSeq(lg, p + 1, k - 1)
  <2>7. cmds \in Seq(Requests) /\ SubSeq(lg, p + 1, k) = Append(cmds, lg[k])
    BY <2>2
  <2>8. F[k] = AfterApplying(start, Append(cmds, lg[k])) /\ F[k - 1] = AfterApplying(start, cmds)
    BY <2>3, <2>7
  <2> HIDE DEF cmds
  <2>4. F[k] = Feed(F[k - 1], lg[k]) /\ F[k - 1] \in Fed
    BY <2>2, <2>7, <2>8, AfterOneMore
  <2>5. Feed(F[k - 1], lg[k]) = FeedStep[<<F[k - 1], lg[k]>>]
    BY <2>2, <2>4 DEF FeedStep
  <2>6. F[k] \in Fed
    BY <2>2, <2>4, <2>5, FeedTyped
  <2> QED
    BY <2>4, <2>6
<1>3. F[upto] = AfterApplying(start, SubSeq(lg, p + 1, upto))
  BY <1>0
<1> HIDE DEF F
<1>4. \A k \in p .. upto : F[k] \in Fed
  <2> TAKE k \in p .. upto
  <2>1. CASE k = p
    BY <1>1, <2>1
  <2>2. CASE k # p
    <3>1. k \in p + 1 .. upto
      BY <1>0, <2>2
    <3> QED
      BY <1>2, <3>1
  <2> QED
    BY <2>1, <2>2
<1>5. FedRun(F, start, lg, p, upto)
  BY <1>1, <1>2, <1>4 DEF FedRun
<1> QED
  BY <1>3, <1>5

-----------------------------------------------------------------------------
\* What an exactly-once state machine does with the i-th entry of lg.
OnceStepOf(lg, img, i) == IF First(lg, i) THEN Executed(img, lg[i]) ELSE img

OnceStep(lg) == [p \in Images \X (1 .. Len(lg)) |-> OnceStepOf(lg, p[1], p[2])]

\* A step of OnceEach keeps its types.
LEMMA OnceTyped ==
    ASSUME NEW lg \in Seq(Requests)
    PROVE  /\ OnceStep(lg) \in [Images \X (1 .. Len(lg)) -> Images]
           /\ \A img \in Images, i \in 1 .. Len(lg) :
                OnceStep(lg)[<<img, i>>] = OnceStepOf(lg, img, i)
<1>1. \A img \in Images, i \in 1 .. Len(lg) : OnceStepOf(lg, img, i) \in Images
  BY ExecutedTyped DEF OnceStepOf
<1> QED
  BY <1>1 DEF OnceStep

Upto(k) == [i \in 1 .. k |-> i]

\* OnceEach is a fold.
LEMMA OnceEachFolds ==
    ASSUME NEW lg \in Seq(Requests), NEW k \in 0 .. Len(lg)
    PROVE  FoldsTo(Images, OnceStep(lg), EmptyImage, Upto(k), OnceEach(lg, k))
<1> DEFINE cmds == Upto(k)
           D == DOMAIN cmds
           Rec(g) == g = [T \in SUBSET D |->
                            IF T = {} THEN EmptyImage
                            ELSE OnceStepOf(lg, g[T \ {Max(T)}], cmds[Max(T)])]
<1>0. Len(lg) \in Nat /\ k \in Nat /\ k <= Len(lg)
  OBVIOUS
<1>1. OnceEach(lg, k) = (CHOOSE g : Rec(g))[D]
  BY DEF OnceEach, FoldLeft, MapThenFoldSet, OnceStepOf, Executed, Upto
<1>3. /\ D = 1 .. k /\ Len(cmds) = k /\ cmds \in Seq(1 .. Len(lg))
      /\ \A i \in D : cmds[i] \in 1 .. Len(lg)
  BY <1>0 DEF Upto
<1> HIDE DEF D, cmds
<1>2. PICK g : Folds1(g, Images, OnceStep(lg), EmptyImage, cmds, Len(cmds))
  BY <1>3, FoldExists, OnceTyped, EmptyTyped
<1>4. \A T \in SUBSET D : T # {} => Max(T) \in D /\ T \ {Max(T)} \in SUBSET D
  BY <1>0, <1>3, MaxIn
<1>5. ASSUME NEW a \in Images, NEW T \in SUBSET D, T # {}
      PROVE  OnceStepOf(lg, a, cmds[Max(T)]) = OnceStep(lg)[<<a, cmds[Max(T)]>>]
  BY <1>3, <1>4, <1>5, OnceTyped
<1>6. Rec(g)
  <2>1. g \in [SUBSET D -> Images]
    BY <1>2, <1>3 DEF Folds1
  <2>2. ASSUME NEW T \in SUBSET D
        PROVE  g[T] = IF T = {} THEN EmptyImage
                      ELSE OnceStepOf(lg, g[T \ {Max(T)}], cmds[Max(T)])
    BY <1>2, <1>3, <1>4, <1>5, <2>1, <2>2 DEF Folds1
  <2> QED
    BY <2>1, <2>2
<1>7. ASSUME NEW f, Rec(f) PROVE FoldsTo(Images, OnceStep(lg), EmptyImage, cmds, f[D])
  <2>1. FoldsIn(f, Images, OnceStep(lg), EmptyImage, cmds)
    <3>1. \A T \in SUBSET D :
            f[T] = IF T = {} THEN EmptyImage
                   ELSE OnceStepOf(lg, f[T \ {Max(T)}], cmds[Max(T)])
      BY <1>7
    <3> QED
      BY <1>3, <1>5, <3>1 DEF FoldsIn
  <2>2. FoldsTo(Images, OnceStep(lg), EmptyImage, cmds, f[1 .. Len(cmds)])
    BY <1>3, <2>1, FoldsInFolds, OnceTyped, EmptyTyped
  <2> QED
    BY <1>3, <2>2
<1>8. Rec(CHOOSE h : Rec(h))
  <2> HIDE DEF Rec
  <2> QED
    BY <1>6
<1> QED
  BY <1>1, <1>7, <1>8 DEF cmds

\* OnceEach, entry by entry.
LEMMA OnceEachIs ==
    ASSUME NEW lg \in Seq(Requests)
    PROVE  /\ OnceEach(lg, 0) = EmptyImage
           /\ \A k \in 0 .. Len(lg) : OnceEach(lg, k) \in Images
           /\ \A k \in 1 .. Len(lg) :
                OnceEach(lg, k) = OnceStepOf(lg, OnceEach(lg, k - 1), k)
<1>0. Len(lg) \in Nat
  OBVIOUS
<1>1. \A k \in 0 .. Len(lg) :
        FoldsTo(Images, OnceStep(lg), EmptyImage, Upto(k), OnceEach(lg, k))
  BY OnceEachFolds
<1>2. \A k \in 0 .. Len(lg) : Upto(k) \in Seq(1 .. Len(lg)) /\ Len(Upto(k)) = k
  BY <1>0 DEF Upto
<1>3. OnceEach(lg, 0) = EmptyImage
  <2>1. FoldsTo(Images, OnceStep(lg), EmptyImage, Upto(0), OnceEach(lg, 0)) /\ Len(Upto(0)) = 0
    BY <1>0, <1>1, <1>2
  <2> QED
    BY <2>1, FoldsToEmpty
<1>4. \A k \in 0 .. Len(lg) : OnceEach(lg, k) \in Images
  BY <1>1, <1>2, FoldsToType
<1>5. ASSUME NEW k \in 1 .. Len(lg)
      PROVE  OnceEach(lg, k) = OnceStepOf(lg, OnceEach(lg, k - 1), k)
  <2>1. k - 1 \in 0 .. Len(lg) /\ k \in 0 .. Len(lg)
    BY <1>0
  <2>2. Upto(k) = Append(Upto(k - 1), k)
    <3>1. \A i \in 1 .. k : Append(Upto(k - 1), k)[i] = i
      BY <1>0, <2>1 DEF Upto
    <3>2. /\ Append(Upto(k - 1), k) \in Seq(1 .. Len(lg)) /\ Len(Append(Upto(k - 1), k)) = k
          /\ Upto(k) \in Seq(1 .. Len(lg)) /\ Len(Upto(k)) = k
      BY <1>2, <2>1
    <3>3. \A i \in 1 .. k : Upto(k)[i] = i
      BY DEF Upto
    <3> QED
      BY <3>1, <3>2, <3>3, SeqEqual
  <2>3. FoldsTo(Images, OnceStep(lg), EmptyImage, Upto(k - 1), OnceEach(lg, k - 1))
    BY <1>1, <2>1
  <2>4. FoldsTo(Images, OnceStep(lg), EmptyImage, Append(Upto(k - 1), k), OnceEach(lg, k))
    BY <1>1, <2>1, <2>2
  <2> DEFINE E == 1 .. Len(lg)
             step == OnceStep(lg)
             shorter == Upto(k - 1)
             r == OnceEach(lg, k - 1)
             q == OnceEach(lg, k)
  <2>6. /\ step \in [Images \X E -> Images] /\ EmptyImage \in Images
        /\ shorter \in Seq(E) /\ k \in E
    BY <1>2, <2>1, OnceTyped, EmptyTyped
  <2>7. /\ FoldsTo(Images, step, EmptyImage, shorter, r)
        /\ FoldsTo(Images, step, EmptyImage, Append(shorter, k), q)
    BY <2>3, <2>4
  <2> HIDE DEF E, step, shorter, r, q
  <2>8. q = step[<<r, k>>]
    BY <2>6, <2>7, FoldsToAppend
  <2>5. OnceEach(lg, k) = OnceStep(lg)[<<OnceEach(lg, k - 1), k>>]
    BY <2>8 DEF step, r, q
  <2> QED
    BY <1>4, <2>1, <2>5, OnceTyped
<1> QED
  BY <1>3, <1>4, <1>5

\* Induction from a to n, for a set.
LEMMA UpTheRange ==
    ASSUME NEW a \in Nat, NEW n \in Nat, NEW P, a \in P,
           \A k \in a + 1 .. n : k - 1 \in P => k \in P
    PROVE  \A k \in a .. n : k \in P
<1> DEFINE Bad == {k \in a .. n : k \notin P}
<1>1. \A k \in a .. n : k \in Bad <=> k \notin P
  OBVIOUS
<1>2. Bad \in SUBSET Nat /\ Bad \subseteq a .. n
  OBVIOUS
<1> HIDE DEF Bad
<1>3. CASE Bad = {}
  BY <1>1, <1>3
<1>4. CASE Bad # {}
  <2>1. PICK k \in Bad : \A m \in Bad : k <= m
    BY <1>2, <1>4, LeastNumber
  <2>2. k \in a .. n /\ k # a
    BY <1>1, <1>2, <2>1
  <2>3. k \in a + 1 .. n /\ k - 1 \in a .. n /\ ~(k <= k - 1)
    BY <2>2
  <2>4. k - 1 \in P
    BY <1>1, <2>1, <2>3
  <2> QED
    BY <1>1, <2>1, <2>2, <2>3, <2>4
<1> QED
  BY <1>3, <1>4

\* A log in which a request comes after a later one of its client only if it came
\* before that one, too.
Sessional(lg) ==
    \A k \in 1 .. Len(lg), j \in 1 .. Len(lg) :
      j < k /\ lg[j].client = lg[k].client /\ lg[j].req >= lg[k].req
        => \E i \in 1 .. j : lg[i] = lg[k]

\* What is first in a log stays first when the log grows.
LEMMA OncePrefix ==
    ASSUME NEW lg \in Seq(Requests), NEW cmd \in Requests, NEW k \in 0 .. Len(lg)
    PROVE  OnceEach(Append(lg, cmd), k) = OnceEach(lg, k)
<1> DEFINE more == Append(lg, cmd)
           n == Len(lg)
           P == {j \in 0 .. n : OnceEach(more, j) = OnceEach(lg, j)}
<1>0. /\ more \in Seq(Requests) /\ n \in Nat /\ Len(more) = n + 1
      /\ \A i \in 1 .. n : more[i] = lg[i]
  OBVIOUS
<1> HIDE DEF more
<1>1. 0 \in P
  BY <1>0, OnceEachIs
<1>2. ASSUME NEW j \in 0 + 1 .. n, j - 1 \in P PROVE j \in P
  <2>1. j \in 1 .. n /\ j \in 1 .. Len(more) /\ j \in 0 .. n
    BY <1>0
  <2>2. OnceEach(more, j) = OnceStepOf(more, OnceEach(more, j - 1), j)
    BY <1>0, <2>1, OnceEachIs
  <2>3. OnceEach(lg, j) = OnceStepOf(lg, OnceEach(lg, j - 1), j)
    BY <2>1, OnceEachIs
  <2>4. First(more, j) <=> First(lg, j)
    BY <1>0, <2>1 DEF First
  <2>5. more[j] = lg[j]
    BY <1>0, <2>1
  <2>6. OnceEach(more, j - 1) = OnceEach(lg, j - 1)
    BY <1>2
  <2>7. OnceEach(more, j) = OnceEach(lg, j)
    BY <2>2, <2>3, <2>4, <2>5, <2>6 DEF OnceStepOf
  <2> QED
    BY <2>1, <2>7
<1>3. 0 \in Nat /\ n \in Nat /\ \A j \in 0 + 1 .. n : j - 1 \in P => j \in P
  BY <1>0, <1>2
<1>4. k \in 0 .. n
  OBVIOUS
<1> HIDE DEF P, n
<1>5. k \in P
  BY <1>1, <1>3, <1>4, UpTheRange
<1> QED
  BY <1>5 DEF P, more

\* s is the highest request of c among the first k entries of lg, 0 if there is none.
SessionIs(lg, k, c, s) ==
    /\ s \in Nat
    /\ \A j \in 1 .. k : lg[j].client = c => lg[j].req <= s
    /\ s = 0 \/ \E j \in 1 .. k : lg[j].client = c /\ lg[j].req = s

\* The session table of the exactly-once state machine.
LEMMA SessionsFollow ==
    ASSUME NEW lg \in Seq(Requests), Sessional(lg), NEW k \in 0 .. Len(lg), NEW c \in Clients
    PROVE  SessionIs(lg, k, c, OnceEach(lg, k).sessions[c].req)
<1> DEFINE n == Len(lg)
           R(j) == OnceEach(lg, j).sessions[c].req
           P == {j \in 0 .. n : SessionIs(lg, j, c, R(j))}
<1>0. n \in Nat /\ \A i \in 1 .. n : lg[i] \in Requests /\ lg[i].req \in Nat
  <2>1. n \in Nat /\ \A i \in 1 .. n : lg[i] \in Requests
    OBVIOUS
  <2>2. \A cmd \in Requests : cmd.req \in Nat
    BY DEF Requests
  <2> QED
    BY <2>1, <2>2
<1>1. 0 \in P
  <2>1. R(0) = 0
    BY OnceEachIs DEF EmptyImage
  <2>2. SessionIs(lg, 0, c, 0)
    BY DEF SessionIs
  <2> QED
    BY <1>0, <2>1, <2>2
<1>2. ASSUME NEW j \in 0 + 1 .. n, j - 1 \in P PROVE j \in P
  <2>1. j \in 1 .. n /\ j \in 0 .. n /\ j - 1 \in 0 .. n /\ j \in Nat
    BY <1>0
  <2>2. OnceEach(lg, j) = OnceStepOf(lg, OnceEach(lg, j - 1), j)
    BY <2>1, OnceEachIs
  <2>3. SessionIs(lg, j - 1, c, R(j - 1))
    BY <1>2
  <2> HIDE DEF P
  <2>4. CASE First(lg, j) /\ lg[j].client = c
    <3>1. OnceEach(lg, j) = Executed(OnceEach(lg, j - 1), lg[j])
      BY <2>2, <2>4 DEF OnceStepOf
    <3>2. OnceEach(lg, j - 1).sessions \in [Clients -> [req : Nat, result : Results]]
      BY <2>1, OnceEachIs DEF Images
    <3>3. R(j) = lg[j].req
      BY <2>4, <3>1, <3>2 DEF Executed
    <3>4. ASSUME NEW i \in 1 .. j, lg[i].client = c PROVE lg[i].req <= lg[j].req
      <4>1. CASE i = j
        BY <1>0, <2>1, <4>1
      <4>2. CASE i # j
        <5>1. i \in 1 .. n /\ i < j /\ i \in 1 .. j - 1
          BY <1>0, <2>1, <4>2
        <5>2. ~(lg[i].req >= lg[j].req)
          <6> SUFFICES ASSUME lg[i].req >= lg[j].req PROVE FALSE
            OBVIOUS
          <6>1. PICK m \in 1 .. i : lg[m] = lg[j]
            BY <2>1, <2>4, <3>4, <5>1 DEF Sessional
          <6>2. m \in 1 .. j - 1
            BY <2>1, <5>1
          <6> QED
            BY <2>4, <6>1, <6>2 DEF First
        <5> QED
          BY <1>0, <2>1, <5>1, <5>2
      <4> QED
        BY <4>1, <4>2
    <3>5. lg[j].req \in Nat /\ j \in 1 .. j
      BY <1>0, <2>1
    <3> HIDE DEF R
    <3>6. SessionIs(lg, j, c, R(j))
      BY <2>4, <3>3, <3>4, <3>5 DEF SessionIs
    <3> QED
      BY <2>1, <3>6 DEF P, R
  <2>5. CASE ~(First(lg, j) /\ lg[j].client = c)
    <3>1. R(j) = R(j - 1)
      <4>1. CASE ~First(lg, j)
        BY <2>2, <4>1 DEF OnceStepOf
      <4>2. CASE First(lg, j)
        <5>1. OnceEach(lg, j) = Executed(OnceEach(lg, j - 1), lg[j])
          BY <2>2, <4>2 DEF OnceStepOf
        <5>2. OnceEach(lg, j - 1).sessions \in [Clients -> [req : Nat, result : Results]]
          BY <2>1, OnceEachIs DEF Images
        <5> QED
          BY <2>5, <4>2, <5>1, <5>2 DEF Executed
      <4> QED
        BY <4>1, <4>2
    <3> HIDE DEF R
    <3>2. \A i \in 1 .. j - 1 : lg[i].client = c => lg[i].req <= R(j)
      BY <2>3, <3>1 DEF SessionIs
    <3>3. lg[j].client = c => lg[j].req <= R(j)
      <4> SUFFICES ASSUME lg[j].client = c PROVE lg[j].req <= R(j)
        OBVIOUS
      <4>1. PICK i \in 1 .. j - 1 : lg[i] = lg[j]
        BY <2>5 DEF First
      <4> QED
        BY <3>2, <4>1
    <3>4. \A i \in 1 .. j : i \in 1 .. j - 1 \/ i = j
      BY <2>1
    <3>5. \A i \in 1 .. j : lg[i].client = c => lg[i].req <= R(j)
      BY <3>2, <3>3, <3>4
    <3>6. R(j) = 0 \/ \E i \in 1 .. j : lg[i].client = c /\ lg[i].req = R(j)
      <4>1. \A i \in 1 .. j - 1 : i \in 1 .. j
        BY <2>1
      <4> QED
        BY <2>3, <3>1, <4>1 DEF SessionIs
    <3>7. R(j) \in Nat
      BY <2>3, <3>1 DEF SessionIs
    <3>8. SessionIs(lg, j, c, R(j))
      BY <3>5, <3>6, <3>7 DEF SessionIs
    <3> QED
      BY <2>1, <3>8 DEF P, R
  <2> QED
    BY <2>4, <2>5
<1>3. \A j \in 0 + 1 .. n : j - 1 \in P => j \in P
  BY <1>2
<1>4. k \in 0 .. n
  OBVIOUS
<1> HIDE DEF P, n
<1>5. k \in P
  BY <1>0, <1>1, <1>3, <1>4, UpTheRange
<1> QED
  BY <1>5 DEF P

\* The session table tells repeats from new requests.
LEMMA RepeatsKnown ==
    ASSUME NEW lg \in Seq(Requests), Sessional(lg), NEW k \in 1 .. Len(lg)
    PROVE  Duplicate(OnceEach(lg, k - 1), lg[k]) <=> ~First(lg, k)
<1> DEFINE s == OnceEach(lg, k - 1).sessions[lg[k].client].req
<1>0. /\ Len(lg) \in Nat /\ k \in Nat /\ k - 1 \in 0 .. Len(lg)
      /\ lg[k].client \in Clients /\ lg[k].req \in Nat \ {0}
      /\ \A i \in 1 .. Len(lg) : lg[i].req \in Nat
  <2>1. /\ Len(lg) \in Nat /\ k \in Nat /\ k - 1 \in 0 .. Len(lg)
        /\ \A i \in 1 .. Len(lg) : lg[i] \in Requests
    OBVIOUS
  <2>2. \A cmd \in Requests : cmd.client \in Clients /\ cmd.req \in Nat \ {0}
    BY DEF Requests
  <2> QED
    BY <2>1, <2>2
<1>1. SessionIs(lg, k - 1, lg[k].client, s)
  BY <1>0, SessionsFollow
<1>2. Duplicate(OnceEach(lg, k - 1), lg[k]) <=> lg[k].req <= s
  BY DEF Duplicate
<1> HIDE DEF s
<1>3. ASSUME ~First(lg, k) PROVE lg[k].req <= s
  <2>1. PICK j \in 1 .. k - 1 : lg[j] = lg[k]
    BY <1>3 DEF First
  <2> QED
    BY <1>1, <2>1 DEF SessionIs
<1>4. ASSUME lg[k].req <= s PROVE ~First(lg, k)
  <2>1. s # 0 /\ s \in Nat
    BY <1>0, <1>1, <1>4 DEF SessionIs
  <2>2. PICK j \in 1 .. k - 1 : lg[j].client = lg[k].client /\ lg[j].req = s
    BY <1>1, <2>1 DEF SessionIs
  <2>3. j \in 1 .. Len(lg) /\ j < k /\ lg[j].req >= lg[k].req
    BY <1>0, <1>4, <2>1, <2>2
  <2>4. PICK i \in 1 .. j : lg[i] = lg[k]
    BY <2>2, <2>3 DEF Sessional
  <2>5. i \in 1 .. k - 1
    BY <1>0, <2>3
  <2> QED
    BY <2>4, <2>5 DEF First
<1> QED
  BY <1>2, <1>3, <1>4

\* apply does to the exactly-once state machine what makes it the next one.
LEMMA ApplyOnce ==
    ASSUME NEW lg \in Seq(Requests), Sessional(lg), NEW k \in 1 .. Len(lg)
    PROVE  Apply(OnceEach(lg, k - 1), lg[k]).image = OnceEach(lg, k)
<1>1. OnceEach(lg, k) = OnceStepOf(lg, OnceEach(lg, k - 1), k)
  BY OnceEachIs
<1>2. Duplicate(OnceEach(lg, k - 1), lg[k]) <=> ~First(lg, k)
  BY RepeatsKnown
<1>3. CASE First(lg, k)
  BY <1>1, <1>2, <1>3, ApplyIs DEF OnceStepOf
<1>4. CASE ~First(lg, k)
  BY <1>1, <1>2, <1>4, ApplyIs DEF OnceStepOf
<1> QED
  BY <1>3, <1>4

\* So a server that was an exactly-once machine stays one while it applies.
LEMMA FedImages ==
    ASSUME NEW lg \in Seq(Requests), Sessional(lg), NEW p \in Nat, NEW upto \in p .. Len(lg),
           NEW start, start.image = OnceEach(lg, p),
           NEW F, FedRun(F, start, lg, p, upto)
    PROVE  \A k \in p .. upto : F[k].image = OnceEach(lg, k)
<1> DEFINE P == {k \in p .. upto : F[k].image = OnceEach(lg, k)}
<1>0. upto \in Nat /\ p <= upto /\ Len(lg) \in Nat /\ upto <= Len(lg)
  OBVIOUS
<1>1. p \in P
  BY <1>0 DEF FedRun
<1>2. ASSUME NEW k \in p + 1 .. upto, k - 1 \in P PROVE k \in P
  <2>1. k \in 1 .. Len(lg) /\ k \in p .. upto
    BY <1>0
  <2>2. F[k] = Feed(F[k - 1], lg[k]) /\ F[k - 1].image = OnceEach(lg, k - 1)
    BY <1>2 DEF FedRun
  <2>3. F[k].image = Apply(OnceEach(lg, k - 1), lg[k]).image
    BY <2>2 DEF Feed
  <2>4. F[k].image = OnceEach(lg, k)
    BY <2>1, <2>3, ApplyOnce
  <2> QED
    BY <2>1, <2>4
<1>3. \A k \in p + 1 .. upto : k - 1 \in P => k \in P
  BY <1>2
<1> HIDE DEF P
<1>4. \A k \in p .. upto : k \in P
  BY <1>0, <1>1, <1>3, UpTheRange
<1> QED
  BY <1>4 DEF P

\* A row that is complete, or that none of the entries is the request of, stays.
LEMMA FedRows ==
    ASSUME NEW lg \in Seq(Requests), NEW p \in Nat, NEW upto \in p .. Len(lg),
           NEW start \in Fed, NEW F, FedRun(F, start, lg, p, upto)
    PROVE  \A k \in p .. upto :
             /\ DOMAIN F[k].rows = DOMAIN start.rows
             /\ \A i \in DOMAIN start.rows :
                  Completed(start.rows[i])
                      \/ (\A j \in p + 1 .. k : lg[j] # Command(start.rows[i]))
                    => F[k].rows[i] = start.rows[i]
<1> DEFINE Same(k) ==
             /\ DOMAIN F[k].rows = DOMAIN start.rows
             /\ \A i \in DOMAIN start.rows :
                  Completed(start.rows[i])
                      \/ (\A j \in p + 1 .. k : lg[j] # Command(start.rows[i]))
                    => F[k].rows[i] = start.rows[i]
           P == {k \in p .. upto : Same(k)}
<1>0. upto \in Nat /\ p <= upto /\ Len(lg) \in Nat /\ upto <= Len(lg)
  OBVIOUS
<1>1. p \in P
  BY <1>0 DEF FedRun
<1>2. ASSUME NEW k \in p + 1 .. upto, k - 1 \in P PROVE k \in P
  <2>1. k \in 1 .. Len(lg) /\ k \in p .. upto /\ k - 1 \in p .. upto /\ lg[k] \in Requests
    BY <1>0
  <2>2. F[k] = Feed(F[k - 1], lg[k]) /\ F[k - 1] \in Fed
    BY <2>1 DEF FedRun
  <2>3. Same(k - 1)
    BY <1>2
  <2> DEFINE rows == F[k - 1].rows
             result == Apply(F[k - 1].image, lg[k]).result
  <2>4. rows \in Seq(Rows) /\ result \in Results
    BY <2>1, <2>2, ApplyTyped DEF Fed
  <2>5. F[k].rows = OnApply(rows, lg[k], result)
    BY <2>2 DEF Feed
  <2>6. DOMAIN rows = DOMAIN start.rows
    BY <2>3
  <2> HIDE DEF rows, result
  <2>7. /\ DOMAIN F[k].rows = DOMAIN rows
        /\ \A i \in DOMAIN rows : F[k].rows[i] = Answered(rows[i], lg[k], result, Len(rows))
    <3>1. OnApply(rows, lg[k], result) \in Seq(Rows) /\ Len(OnApply(rows, lg[k], result)) = Len(rows)
      BY <2>4, OnApplyRows
    <3> QED
      BY <2>4, <2>5, <3>1, OnApplyRows
  <2>8. ASSUME NEW i \in DOMAIN start.rows,
               Completed(start.rows[i])
                 \/ (\A j \in p + 1 .. k : lg[j] # Command(start.rows[i]))
        PROVE  F[k].rows[i] = start.rows[i]
    <3>1. \A j \in p + 1 .. k - 1 : j \in p + 1 .. k
      BY <1>0, <2>1
    <3>2. rows[i] = start.rows[i]
      BY <2>3, <2>8, <3>1 DEF rows
    <3>3. k \in p + 1 .. k
      BY <1>0
    <3>4. Completed(rows[i]) \/ Command(rows[i]) # lg[k]
      BY <2>8, <3>2, <3>3
    <3> QED
      BY <2>6, <2>7, <3>2, <3>4 DEF Answered
  <2>9. Same(k)
    BY <2>6, <2>7, <2>8
  <2> QED
    BY <2>1, <2>9
<1>3. \A k \in p + 1 .. upto : k - 1 \in P => k \in P
  BY <1>2
<1>4. \A k \in p .. upto : k \in P
  <2> HIDE DEF P
  <2> QED
    BY <1>0, <1>1, <1>3, UpTheRange
<1> QED
  BY <1>4

-----------------------------------------------------------------------------
(***************************************************************************)
(* The service: a request takes effect once.  The invariant relates the    *)
(* clients' rows, the committed log and the session tables: clients number *)
(* their operations and wait for each, so the log has their requests in    *)
(* order, and a session that is as far as a request has seen that request. *)
(***************************************************************************)
\* Clients number their operations, and have one outstanding at a time.
Numbered(rows) ==
    \A i \in DOMAIN rows, j \in DOMAIN rows :
      rows[i].client = rows[j].client /\ i < j
        => rows[i].req < rows[j].req /\ Completed(rows[i])

\* Every entry of lg is the request of an operation that is complete.
KnownRows(rows, lg) ==
    \A k \in 1 .. Len(lg) : \E i \in DOMAIN rows :
      lg[k] = Command(rows[i]) /\ Logged(rows[i]) /\ Completed(rows[i])

\* Every operation that travelled through the log and is complete is in lg.
DoneDecided(rows, lg) ==
    \A i \in DOMAIN rows : Completed(rows[i]) /\ Logged(rows[i])
      => \E k \in 1 .. Len(lg) : lg[k] = Command(rows[i])

\* An entry comes after all its client asked for before.
InOrder(rows, lg) ==
    \A k \in 1 .. Len(lg), i \in DOMAIN rows :
      /\ Logged(rows[i]) /\ rows[i].client = lg[k].client /\ rows[i].req < lg[k].req
      => \E j \in 1 .. k - 1 : lg[j] = Command(rows[i])

\* The rows ask for what they asked for, and what is complete stays.
SameRequests(old, new) ==
    /\ DOMAIN new = DOMAIN old
    /\ \A i \in DOMAIN old :
         /\ Command(new[i]) = Command(old[i])
         /\ new[i].invoked = old[i].invoked
         /\ Completed(old[i]) => new[i] = old[i]

\* A command is its client, its number and its operation.
LEMMA CommandIs ==
    ASSUME NEW row, NEW other
    PROVE  /\ Command(row).client = row.client
           /\ Command(row).req = row.req
           /\ Command(row).o = row.o
           /\ Command(row) = Command(other)
                <=> row.client = other.client /\ row.req = other.req /\ row.o = other.o
  BY DEF Command

\* The types of a row.
LEMMA RowFields ==
    ASSUME NEW rows \in Seq(Rows), NEW i \in DOMAIN rows
    PROVE  /\ rows[i].client \in Clients /\ rows[i].req \in Nat \ {0}
           /\ rows[i].o \in Operations /\ rows[i].invoked \in Nat \ {0}
           /\ rows[i].returned \in Nat /\ rows[i].observed \in Results
           /\ Command(rows[i]) \in Requests
           /\ i \in Nat
<1>1. rows[i] \in Rows
  OBVIOUS
<1>2. i \in Nat
  OBVIOUS
<1> QED
  BY <1>1, <1>2 DEF Rows, Command, Requests

\* A client and a number name one operation.
LEMMA RowUnique ==
    ASSUME NEW rows \in Seq(Rows), Numbered(rows), NEW i \in DOMAIN rows, NEW j \in DOMAIN rows,
           rows[i].client = rows[j].client, rows[i].req = rows[j].req
    PROVE  i = j
<1>1. rows[i].req \in Nat /\ rows[j].req \in Nat /\ i \in Nat /\ j \in Nat
  BY RowFields
<1>2. ~(i < j) /\ ~(j < i)
  BY <1>1 DEF Numbered
<1> QED
  BY <1>1, <1>2

\* What the rows ask for in order is in order in the log.
LEMMA KnownSessional ==
    ASSUME NEW rows \in Seq(Rows), NEW lg \in Seq(Requests), Numbered(rows),
           \A k \in 1 .. Len(lg) : \E i \in DOMAIN rows :
             lg[k] = Command(rows[i]) /\ Logged(rows[i]),
           InOrder(rows, lg)
    PROVE  Sessional(lg)
<1> SUFFICES ASSUME NEW k \in 1 .. Len(lg), NEW j \in 1 .. Len(lg), j < k,
                    lg[j].client = lg[k].client, lg[j].req >= lg[k].req
             PROVE  \E i \in 1 .. j : lg[i] = lg[k]
  BY DEF Sessional
<1>1. PICK a \in DOMAIN rows : lg[k] = Command(rows[a]) /\ Logged(rows[a])
  OBVIOUS
<1>2. PICK b \in DOMAIN rows : lg[j] = Command(rows[b]) /\ Logged(rows[b])
  OBVIOUS
<1>3. /\ lg[k].client = rows[a].client /\ lg[k].req = rows[a].req
      /\ lg[j].client = rows[b].client /\ lg[j].req = rows[b].req
  BY <1>1, <1>2, CommandIs
<1>4. rows[a].req \in Nat /\ rows[b].req \in Nat
  BY RowFields
<1>5. CASE rows[a].req = rows[b].req
  <2>1. a = b
    BY <1>3, <1>5, RowUnique
  <2>2. lg[j] = lg[k] /\ j \in 1 .. j
    BY <1>1, <1>2, <2>1
  <2> QED
    BY <2>2
<1>6. CASE rows[a].req # rows[b].req
  <2>1. rows[a].req < lg[j].req
    BY <1>3, <1>4, <1>6
  <2>2. PICK i \in 1 .. j - 1 : lg[i] = Command(rows[a])
    BY <1>1, <1>3, <2>1 DEF InOrder
  <2>3. i \in 1 .. j
    OBVIOUS
  <2> QED
    BY <1>1, <2>2, <2>3
<1> QED
  BY <1>5, <1>6

\* Whether a request travels through the log depends on its operation.
LEMMA SameLogged ==
    ASSUME NEW row, NEW other, row.o = other.o
    PROVE  Logged(row) <=> Logged(other)
  BY DEF Logged

\* An answer changes no request.
LEMMA AnswerSame ==
    ASSUME NEW rows \in Seq(Rows), NEW cmd, NEW result \in Results
    PROVE  SameRequests(rows, OnApply(rows, cmd, result))
<1> DEFINE new == OnApply(rows, cmd, result)
<1>1. /\ new \in Seq(Rows) /\ Len(new) = Len(rows)
      /\ \A i \in DOMAIN rows : new[i] = Answered(rows[i], cmd, result, Len(rows))
  BY OnApplyRows
<1>2. DOMAIN new = DOMAIN rows
  BY <1>1
<1> HIDE DEF new
<1>3. ASSUME NEW i \in DOMAIN rows
      PROVE  /\ Command(new[i]) = Command(rows[i])
             /\ new[i].invoked = rows[i].invoked
             /\ Completed(rows[i]) => new[i] = rows[i]
  <2>1. rows[i] \in Rows
    OBVIOUS
  <2>2. CASE Command(rows[i]) = cmd /\ ~Completed(rows[i])
    <3>1. new[i] = [rows[i] EXCEPT !.returned = Len(rows), !.observed = result]
      BY <1>1, <2>2 DEF Answered
    <3>2. /\ new[i].client = rows[i].client /\ new[i].req = rows[i].req
          /\ new[i].o = rows[i].o /\ new[i].invoked = rows[i].invoked
      BY <2>1, <3>1 DEF Rows
    <3> QED
      BY <2>2, <3>2 DEF Command
  <2>3. CASE ~(Command(rows[i]) = cmd /\ ~Completed(rows[i]))
    BY <1>1, <2>3 DEF Answered
  <2> QED
    BY <2>2, <2>3
<1>4. SameRequests(rows, new)
  BY <1>2, <1>3 DEF SameRequests
<1> QED
  BY <1>4 DEF new

\* An answer keeps the numbers of the requests.
LEMMA SameNumbered ==
    ASSUME NEW old \in Seq(Rows), NEW new \in Seq(Rows), SameRequests(old, new), Numbered(old)
    PROVE  Numbered(new)
<1>1. DOMAIN new = DOMAIN old
  BY DEF SameRequests
<1>2. \A i \in DOMAIN old :
        /\ new[i].client = old[i].client /\ new[i].req = old[i].req
        /\ Completed(old[i]) => Completed(new[i])
  BY CommandIs DEF SameRequests
<1> QED
  BY <1>1, <1>2 DEF Numbered

\* An answer keeps what the log is known to hold.
LEMMA SameKnown ==
    ASSUME NEW old \in Seq(Rows), NEW new \in Seq(Rows), SameRequests(old, new), NEW lg,
           KnownRows(old, lg)
    PROVE  KnownRows(new, lg)
<1>1. \A i \in DOMAIN old :
        /\ Command(new[i]) = Command(old[i]) /\ (Logged(old[i]) <=> Logged(new[i]))
        /\ Completed(old[i]) => Completed(new[i])
  BY CommandIs, SameLogged DEF SameRequests
<1> QED
  BY <1>1 DEF KnownRows, SameRequests

\* An answer keeps the order of the log.
LEMMA SameInOrder ==
    ASSUME NEW old \in Seq(Rows), NEW new \in Seq(Rows), SameRequests(old, new), NEW lg,
           InOrder(old, lg)
    PROVE  InOrder(new, lg)
<1>1. \A i \in DOMAIN old :
        /\ Command(new[i]) = Command(old[i]) /\ (Logged(old[i]) <=> Logged(new[i]))
        /\ new[i].client = old[i].client /\ new[i].req = old[i].req
  BY CommandIs, SameLogged DEF SameRequests
<1> QED
  BY <1>1 DEF InOrder, SameRequests

\* An entry more whose operation is complete.
LEMMA KnownPrefix ==
    ASSUME NEW rows, NEW lg \in Seq(Requests), NEW cmd \in Requests, KnownRows(rows, lg),
           NEW i \in DOMAIN rows, cmd = Command(rows[i]), Logged(rows[i]), Completed(rows[i])
    PROVE  KnownRows(rows, Append(lg, cmd))
  BY DEF KnownRows

\* A request that may be committed comes after all its client asked for before.
LEMMA OrderExtends ==
    ASSUME NEW rows \in Seq(Rows), NEW lg \in Seq(Requests), NEW i \in DOMAIN rows,
           Logged(rows[i]), Numbered(rows), DoneDecided(rows, lg), InOrder(rows, lg)
    PROVE  InOrder(rows, Append(lg, Command(rows[i])))
<1> DEFINE cmd == Command(rows[i])
           more == Append(lg, cmd)
           n == Len(lg)
<1>0. cmd \in Requests /\ cmd.client = rows[i].client /\ cmd.req = rows[i].req
  BY RowFields, CommandIs
<1> HIDE DEF cmd
<1>1. /\ n \in Nat /\ Len(more) = n + 1 /\ more[n + 1] = cmd
      /\ \A k \in 1 .. n : more[k] = lg[k]
  BY <1>0
<1> HIDE DEF more, n
<1>2. ASSUME NEW k \in 1 .. n + 1, NEW a \in DOMAIN rows,
             Logged(rows[a]), rows[a].client = more[k].client, rows[a].req < more[k].req
      PROVE  \E j \in 1 .. k - 1 : more[j] = Command(rows[a])
  <2>1. CASE k \in 1 .. n
    <3>1. PICK j \in 1 .. k - 1 : lg[j] = Command(rows[a])
      BY <1>1, <1>2, <2>1 DEF InOrder, n
    <3>2. j \in 1 .. n
      BY <1>1, <2>1
    <3> QED
      BY <1>1, <3>1, <3>2
  <2>2. CASE k = n + 1
    <3>1. rows[a].client = rows[i].client /\ rows[a].req < rows[i].req
      BY <1>0, <1>1, <1>2, <2>2
    <3>2. a \in Nat /\ i \in Nat /\ rows[a].req \in Nat /\ rows[i].req \in Nat
      BY RowFields
    <3>3. a < i
      BY <3>1, <3>2 DEF Numbered
    <3>4. Completed(rows[a])
      BY <3>1, <3>3 DEF Numbered
    <3>5. PICK j \in 1 .. n : lg[j] = Command(rows[a])
      BY <1>2, <3>4 DEF DoneDecided, n
    <3>6. k - 1 = n
      BY <1>1, <2>2
    <3> QED
      BY <1>1, <3>5, <3>6
  <2> QED
    BY <1>1, <2>1, <2>2
<1> QED
  BY <1>1, <1>2 DEF InOrder, more, cmd

\* How many operations a client has invoked is what its numbers go up to.
RowsCounted ==
    \A c \in Clients :
      /\ IsFiniteSet(RowsOf(c))
      /\ \A i \in RowsOf(c) : history[i].req <= Cardinality(RowsOf(c))

\* A read that is being confirmed is one that a client asked for and no log holds.
ReadsAsked ==
    \A r \in reads :
      /\ mode = "readindex"
      /\ \E i \in DOMAIN history : /\ history[i].client = r.client /\ history[i].req = r.req
                                   /\ ~Logged(history[i])

SInv ==
    /\ ServiceTypeOK
    /\ Numbered(history)
    /\ RowsCounted
    /\ KnownRows(history, decided)
    /\ InOrder(history, decided)
    /\ ReadsAsked
    /\ ExactlyOnce

AllDecided == verdict = "none" => DoneDecided(history, decided)

-----------------------------------------------------------------------------
\* The types of the service, for citing.
LEMMA TypesOf ==
    ASSUME ServiceTypeOK
    PROVE  /\ decided \in Seq(Requests) /\ Len(decided) \in Nat
           /\ history \in Seq(Rows) /\ Len(history) \in Nat
           /\ DOMAIN history = 1 .. Len(history)
           /\ position \in [Nodes -> 0 .. Len(decided)]
           /\ image \in [Nodes -> Images]
           /\ snapshot \in [Nodes -> [index : 0 .. Len(decided), image : Images]]
           /\ \A n \in Nodes :
                /\ position[n] \in 0 .. Len(decided) /\ position[n] \in Nat
                /\ image[n] \in Images
                /\ snapshot[n].index \in 0 .. Len(decided)
                /\ snapshot[n].image \in Images
<1>1. /\ decided \in Seq(Requests) /\ history \in Seq(Rows)
      /\ position \in [Nodes -> 0 .. Len(decided)]
      /\ image \in [Nodes -> Images]
      /\ snapshot \in [Nodes -> [index : 0 .. Len(decided), image : Images]]
  BY DEF ServiceTypeOK
<1>2. Len(decided) \in Nat /\ Len(history) \in Nat /\ DOMAIN history = 1 .. Len(history)
  BY <1>1
<1>3. \A n \in Nodes :
        /\ position[n] \in 0 .. Len(decided) /\ position[n] \in Nat
        /\ image[n] \in Images
        /\ snapshot[n].index \in 0 .. Len(decided)
        /\ snapshot[n].image \in Images
  BY <1>1, <1>2
<1> QED
  BY <1>1, <1>2, <1>3

\* The committed log has each client's requests in order.
LEMMA DecidedSessional == SInv => Sessional(decided)
<1> SUFFICES ASSUME SInv PROVE Sessional(decided)
  OBVIOUS
<1>1. /\ history \in Seq(Rows) /\ decided \in Seq(Requests) /\ Numbered(history)
      /\ InOrder(history, decided)
  BY TypesOf DEF SInv
<1>2. \A k \in 1 .. Len(decided) : \E i \in DOMAIN history :
        decided[k] = Command(history[i]) /\ Logged(history[i])
  BY DEF SInv, KnownRows
<1> QED
  BY <1>1, <1>2, KnownSessional

\* The operation that an entry is the request of is complete.
LEMMA DecidedComplete ==
    ASSUME SInv, NEW k \in 1 .. Len(decided), NEW i \in DOMAIN history,
           decided[k] = Command(history[i])
    PROVE  Completed(history[i])
<1>1. PICK a \in DOMAIN history : decided[k] = Command(history[a]) /\ Completed(history[a])
  BY DEF SInv, KnownRows
<1>2. history[a].client = history[i].client /\ history[a].req = history[i].req
  <2>1. Command(history[a]) = Command(history[i])
    BY <1>1
  <2> QED
    BY <2>1, CommandIs
<1>3. a = i
  BY <1>2, TypesOf, RowUnique DEF SInv
<1> QED
  BY <1>1, <1>3

\* What SetCommitIndex does to server n, and which rows it leaves alone.
FedBy(n, lg, upto, F) ==
    /\ FedRun(F, [image |-> image[n], rows |-> history], lg, position[n], upto)
    /\ \A k \in position[n] .. upto : F[k].image = OnceEach(lg, k)
    /\ history' = F[upto].rows
    /\ position' = [position EXCEPT ![n] = upto]
    /\ image' = [image EXCEPT ![n] = OnceEach(lg, upto)]
    /\ \/ snapshot' = snapshot
       \/ snapshot' = [snapshot EXCEPT ![n] = [index |-> upto, image |-> OnceEach(lg, upto)]]

\* What _set_commit_index does when the log holds what it held.
LEMMA SetCommitFeeds ==
    ASSUME SInv, NEW n \in Nodes, NEW lg \in Seq(Requests), Sessional(lg),
           \A k \in 0 .. Len(decided) : OnceEach(lg, k) = OnceEach(decided, k),
           NEW upto \in position[n] .. Len(lg), SetCommitIndex(n, lg, upto)
    PROVE  \E F : FedBy(n, lg, upto, F)
<1> DEFINE start == [image |-> image[n], rows |-> history]
           p == position[n]
           fed == AfterApplying(start, SubSeq(lg, p + 1, upto))
<1>1. /\ p \in Nat /\ p \in 0 .. Len(decided) /\ start \in Fed /\ image[n] \in Images
      /\ history \in Seq(Rows)
  BY TypesOf DEF SInv, Fed
<1>2. start.image = OnceEach(lg, p)
  BY <1>1 DEF SInv, ExactlyOnce
<1>3. /\ position' = [position EXCEPT ![n] = upto]
      /\ image' = [image EXCEPT ![n] = fed.image]
      /\ history' = fed.rows
      /\ \/ snapshot' = snapshot
         \/ snapshot' = [snapshot EXCEPT ![n] = [index |-> upto, image |-> fed.image]]
  BY DEF SetCommitIndex
<1> HIDE DEF start, p
<1>4. PICK F : FedRun(F, start, lg, p, upto) /\ F[upto] = fed
  BY <1>1, AfterApplyingRun DEF p
<1>5. \A k \in p .. upto : F[k].image = OnceEach(lg, k)
  BY <1>1, <1>2, <1>4, FedImages DEF p
<1>6. upto \in p .. upto
  BY <1>1 DEF p
<1>7. fed.image = OnceEach(lg, upto)
  BY <1>4, <1>5, <1>6
<1>8. /\ FedRun(F, [image |-> image[n], rows |-> history], lg, position[n], upto)
      /\ \A k \in position[n] .. upto : F[k].image = OnceEach(lg, k)
  BY <1>4, <1>5 DEF start, p
<1> HIDE DEF fed
<1>9. FedBy(n, lg, upto, F)
  BY <1>3, <1>4, <1>7, <1>8 DEF FedBy
<1> QED
  BY <1>9

\* What is decided is no news to the clients.
LEMMA FedDecided ==
    ASSUME SInv, NEW n \in Nodes, NEW lg \in Seq(Requests),
           \A k \in 1 .. Len(decided) : lg[k] = decided[k], Len(decided) <= Len(lg),
           NEW upto \in position[n] .. Len(lg), NEW F,
           FedRun(F, [image |-> image[n], rows |-> history], lg, position[n], upto),
           NEW k \in position[n] .. upto, k <= Len(decided)
    PROVE  F[k].rows = history
<1> DEFINE start == [image |-> image[n], rows |-> history]
<1>1. /\ position[n] \in Nat /\ start \in Fed /\ history \in Seq(Rows) /\ start.rows = history
      /\ Len(decided) \in Nat
  BY TypesOf DEF SInv, Fed
<1>2. FedRun(F, start, lg, position[n], upto)
  OBVIOUS
<1> HIDE DEF start
<1>3. /\ DOMAIN F[k].rows = DOMAIN start.rows
      /\ \A i \in DOMAIN start.rows :
           Completed(start.rows[i])
               \/ (\A j \in position[n] + 1 .. k : lg[j] # Command(start.rows[i]))
             => F[k].rows[i] = start.rows[i]
  BY <1>1, <1>2, FedRows
<1>4. ASSUME NEW i \in DOMAIN history PROVE F[k].rows[i] = history[i]
  <2>1. CASE Completed(history[i])
    BY <1>1, <1>3, <2>1
  <2>2. CASE ~Completed(history[i])
    <3>1. ASSUME NEW j \in position[n] + 1 .. k PROVE lg[j] # Command(history[i])
      <4>1. j \in 1 .. Len(decided)
        BY <1>1
      <4> QED
        BY <2>2, <4>1, DecidedComplete
    <3> QED
      BY <1>1, <1>3, <3>1
  <2> QED
    BY <2>1, <2>2
<1>5. F[k] \in Fed
  BY <1>2 DEF FedRun
<1>6. F[k].rows \in Seq(Rows)
  BY <1>5 DEF Fed
<1> QED
  BY <1>1, <1>3, <1>4, <1>6, SeqEqual

\* A server that learns more of the log tells no client anything.
Learnt(n, upto) ==
    /\ upto \in position[n] + 1 .. Len(decided)
    /\ position' = [position EXCEPT ![n] = upto]
    /\ image' = [image EXCEPT ![n] = OnceEach(decided, upto)]
    /\ \/ snapshot' = snapshot
       \/ snapshot' = [snapshot EXCEPT ![n] = [index |-> upto,
                                               image |-> OnceEach(decided, upto)]]
    /\ history' = history
    /\ UNCHANGED <<mode, decided, reads, crashes>>

\* What Learn does.
LEMMA LearnIs ==
    ASSUME SInv, NEW n \in Nodes, Learn(n)
    PROVE  \E upto : Learnt(n, upto)
<1>1. PICK upto \in position[n] + 1 .. Len(decided) : SetCommitIndex(n, decided, upto)
  BY DEF Learn
<1>2. /\ decided \in Seq(Requests) /\ position[n] \in Nat /\ Len(decided) \in Nat
      /\ Sessional(decided)
  BY TypesOf, DecidedSessional DEF SInv
<1>3. upto \in position[n] .. Len(decided) /\ upto <= Len(decided) /\ upto \in position[n] .. upto
  BY <1>2
<1>4. PICK F : FedBy(n, decided, upto, F)
  BY <1>1, <1>2, <1>3, SetCommitFeeds
<1>5. F[upto].rows = history
  BY <1>2, <1>3, <1>4, FedDecided DEF FedBy
<1>6. Learnt(n, upto)
  BY <1>1, <1>4, <1>5 DEF FedBy, Learnt, Learn
<1> QED
  BY <1>6

\* A server that commits cmd executes it unless it was, and tells its client.
Committed(n, i) ==
    LET cmd == Command(history[i])
        more == Append(decided, cmd)
        k == Len(decided)
    IN /\ Logged(history[i])
       /\ decided' = more
       /\ position' = [position EXCEPT ![n] = k + 1]
       /\ image' = [image EXCEPT ![n] = OnceEach(more, k + 1)]
       /\ \/ snapshot' = snapshot
          \/ snapshot' = [snapshot EXCEPT ![n] = [index |-> k + 1,
                                                  image |-> OnceEach(more, k + 1)]]
       /\ history' = OnApply(history, cmd, Apply(OnceEach(decided, k), cmd).result)
       /\ Sessional(more) /\ InOrder(history, more)
       /\ UNCHANGED <<mode, reads, crashes>>

\* What Commit does.
LEMMA CommitIs ==
    ASSUME SInv, DoneDecided(history, decided), NEW n \in Nodes, Commit(n)
    PROVE  \E i \in DOMAIN history : Committed(n, i)
<1>1. PICK cmd \in Submitted :
        decided' = Append(decided, cmd) /\ SetCommitIndex(n, decided', Len(decided) + 1)
  BY DEF Commit
<1>2. PICK i \in DOMAIN history : cmd = Command(history[i]) /\ Logged(history[i])
  <2>1. PICK row \in {r \in Range(history) : Logged(r)} : cmd = Command(row)
    BY DEF Submitted
  <2>2. PICK i \in DOMAIN history : row = history[i]
    BY DEF Range
  <2> QED
    BY <2>1, <2>2
<1> DEFINE more == Append(decided, cmd)
           k == Len(decided)
<1>3. /\ decided \in Seq(Requests) /\ history \in Seq(Rows) /\ k \in Nat
      /\ position[n] \in Nat /\ position[n] \in 0 .. k
  BY TypesOf DEF SInv
<1>4. cmd \in Requests
  BY <1>2, <1>3, RowFields
<1>5. /\ more \in Seq(Requests) /\ Len(more) = k + 1 /\ more[k + 1] = cmd
      /\ \A j \in 1 .. k : more[j] = decided[j]
  BY <1>3, <1>4
<1>6. InOrder(history, more)
  BY <1>2, <1>3, OrderExtends DEF SInv
<1>7. \A j \in 0 .. k : OnceEach(more, j) = OnceEach(decided, j)
  BY <1>3, <1>4, OncePrefix
<1>8. SetCommitIndex(n, more, k + 1)
  BY <1>1
<1> HIDE DEF more
<1>9. Sessional(more)
  <2>1. \A j \in 1 .. Len(more) : \E a \in DOMAIN history :
          more[j] = Command(history[a]) /\ Logged(history[a])
    <3> TAKE j \in 1 .. Len(more)
    <3>1. CASE j = k + 1
      BY <1>2, <1>5, <3>1
    <3>2. CASE j # k + 1
      <4>1. j \in 1 .. k
        BY <1>3, <1>5, <3>2
      <4> QED
        BY <1>5, <4>1 DEF SInv, KnownRows
    <3> QED
      BY <3>1, <3>2
  <2> QED
    BY <1>3, <1>5, <1>6, <2>1, KnownSessional DEF SInv
<1>10. /\ k + 1 \in position[n] .. Len(more) /\ k \in position[n] .. k + 1
       /\ k + 1 \in position[n] + 1 .. k + 1
  BY <1>3, <1>5
<1>11. PICK F : FedBy(n, more, k + 1, F)
  BY <1>5, <1>7, <1>8, <1>9, <1>10, SetCommitFeeds
<1>12. FedRun(F, [image |-> image[n], rows |-> history], more, position[n], k + 1)
  BY <1>11 DEF FedBy
<1>13. F[k].rows = history
  <2>1. /\ \A j \in 1 .. Len(decided) : more[j] = decided[j]
        /\ Len(decided) <= Len(more) /\ k <= Len(decided)
    BY <1>3, <1>5
  <2> DEFINE last == k + 1
  <2>2. /\ last \in position[n] .. Len(more) /\ k \in position[n] .. last
        /\ FedRun(F, [image |-> image[n], rows |-> history], more, position[n], last)
    BY <1>10, <1>12
  <2> HIDE DEF k, last
  <2> QED
    BY <1>5, <2>1, <2>2, FedDecided
<1>14. F[k].image = OnceEach(decided, k)
  <2>1. F[k].image = OnceEach(more, k)
    BY <1>10, <1>11 DEF FedBy
  <2> QED
    BY <1>3, <1>7, <2>1
<1>15. F[k + 1] = Feed(F[k], cmd)
  <2>1. F[k + 1] = Feed(F[k + 1 - 1], more[k + 1])
    BY <1>10, <1>12 DEF FedRun
  <2>2. k + 1 - 1 = k
    BY <1>3
  <2> QED
    BY <1>5, <2>1, <2>2
<1>16. F[k + 1].rows = OnApply(history, cmd, Apply(OnceEach(decided, k), cmd).result)
  BY <1>13, <1>14, <1>15 DEF Feed
<1>17. history' = OnApply(history, cmd, Apply(OnceEach(decided, k), cmd).result)
  BY <1>11, <1>16 DEF FedBy
<1>18. decided' = more /\ UNCHANGED <<mode, reads, crashes>>
  BY <1>1 DEF Commit, more
<1>19. /\ position' = [position EXCEPT ![n] = k + 1]
       /\ image' = [image EXCEPT ![n] = OnceEach(more, k + 1)]
       /\ \/ snapshot' = snapshot
          \/ snapshot' = [snapshot EXCEPT ![n] = [index |-> k + 1,
                                                  image |-> OnceEach(more, k + 1)]]
  BY <1>11 DEF FedBy
<1>20. Committed(n, i)
  BY <1>2, <1>6, <1>9, <1>17, <1>18, <1>19 DEF Committed, more
<1> QED
  BY <1>20

RowsInv ==
    /\ Numbered(history)
    /\ RowsCounted
    /\ KnownRows(history, decided)
    /\ InOrder(history, decided)
    /\ ReadsAsked

\* What holds of rows and logs does not depend on when it is said.
LEMMA LoggedStays ==
    ASSUME mode' = mode
    PROVE  /\ KnownRows(history, decided)' <=> KnownRows(history', decided')
           /\ InOrder(history, decided)' <=> InOrder(history', decided')
           /\ DoneDecided(history, decided)' <=> DoneDecided(history', decided')
           /\ \A row : Logged(row)' <=> Logged(row)
<1>1. KnownRows(history, decided)' <=> KnownRows(history', decided')
  BY DEF KnownRows, Logged
<1>2. InOrder(history, decided)' <=> InOrder(history', decided')
  BY DEF InOrder, Logged
<1>3. DoneDecided(history, decided)' <=> DoneDecided(history', decided')
  BY DEF DoneDecided, Logged
<1>4. \A row : Logged(row)' <=> Logged(row)
  BY DEF Logged
<1> QED
  BY <1>1, <1>2, <1>3, <1>4

\* The read r asks for an operation that no log holds.
Asks(r) ==
    /\ mode = "readindex"
    /\ \E i \in DOMAIN history : /\ history[i].client = r.client /\ history[i].req = r.req
                                 /\ ~Logged(history[i])

\* Answers change no request, and hence none of what is said of requests.
LEMMA RequestsStay ==
    ASSUME SInv, mode' = mode, history' \in Seq(Rows), SameRequests(history, history')
    PROVE  /\ Numbered(history')
           /\ RowsCounted'
           /\ KnownRows(history', decided)
           /\ \A lg : InOrder(history, lg) => InOrder(history', lg)
           /\ (\A r \in reads' : r \in reads \/ Asks(r)) => ReadsAsked'
<1>1. /\ history \in Seq(Rows) /\ Numbered(history) /\ KnownRows(history, decided)
      /\ RowsCounted /\ ReadsAsked
  BY TypesOf DEF SInv
<1>2. Numbered(history')
  BY <1>1, SameNumbered
<1>3. KnownRows(history', decided)
  BY <1>1, SameKnown
<1>4. \A lg : InOrder(history, lg) => InOrder(history', lg)
  BY <1>1, SameInOrder
<1>5. /\ DOMAIN history' = DOMAIN history
      /\ \A i \in DOMAIN history :
           /\ history'[i].client = history[i].client /\ history'[i].req = history[i].req
           /\ Logged(history'[i]) <=> Logged(history[i])
  <2>1. \A i \in DOMAIN history : Command(history'[i]) = Command(history[i])
    BY DEF SameRequests
  <2>2. ASSUME NEW i \in DOMAIN history
        PROVE  /\ history'[i].client = history[i].client /\ history'[i].req = history[i].req
               /\ history'[i].o = history[i].o
    BY <2>1, CommandIs
  <2>3. \A i \in DOMAIN history : Logged(history'[i]) <=> Logged(history[i])
    BY <2>2, SameLogged
  <2> QED
    BY <2>2, <2>3 DEF SameRequests
<1>6. RowsCounted'
  <2>1. \A c : RowsOf(c)' = RowsOf(c)
    BY <1>5 DEF RowsOf
  <2>2. SUFFICES ASSUME NEW c \in Clients
                 PROVE  /\ IsFiniteSet(RowsOf(c)')
                        /\ \A i \in RowsOf(c)' : history'[i].req <= Cardinality(RowsOf(c)')
    BY DEF RowsCounted
  <2>3. /\ IsFiniteSet(RowsOf(c))
        /\ \A i \in RowsOf(c) : history[i].req <= Cardinality(RowsOf(c))
    BY <1>1 DEF RowsCounted
  <2>4. \A i \in RowsOf(c) : i \in DOMAIN history
    BY DEF RowsOf
  <2> QED
    BY <1>5, <2>1, <2>3, <2>4
<1>7. ASSUME \A r \in reads' : r \in reads \/ Asks(r) PROVE ReadsAsked'
  <2>1. SUFFICES ASSUME NEW r \in reads'
                 PROVE  /\ mode' = "readindex"
                        /\ \E i \in DOMAIN history' :
                             /\ history'[i].client = r.client /\ history'[i].req = r.req
                             /\ ~Logged(history[i])'
    BY DEF ReadsAsked
  <2>2. Asks(r)
    BY <1>1, <1>7 DEF ReadsAsked, Asks
  <2>3. mode = "readindex"
    BY <2>2 DEF Asks
  <2>4. PICK i \in DOMAIN history :
          history[i].client = r.client /\ history[i].req = r.req /\ ~Logged(history[i])
    BY <2>2 DEF Asks
  <2>5. ~Logged(history[i])'
    BY <1>5, <2>4 DEF Logged
  <2> QED
    BY <1>5, <2>3, <2>4, <2>5
<1> QED
  BY <1>2, <1>3, <1>4, <1>6, <1>7

\* A step that leaves the rows, the log and the requests of reads alone.
LEMMA RowsStay ==
    ASSUME SInv, AllDecided, UNCHANGED <<mode, history, decided>>, verdict' = verdict,
           \A r \in reads' : r \in reads \/ Asks(r)
    PROVE  RowsInv' /\ AllDecided'
<1>1. /\ history \in Seq(Rows) /\ InOrder(history, decided)
      /\ history' = history /\ decided' = decided
  BY TypesOf DEF SInv
<1>2. SameRequests(history, history')
  BY <1>1 DEF SameRequests
<1>3. /\ Numbered(history') /\ RowsCounted' /\ KnownRows(history', decided)
      /\ InOrder(history', decided) /\ ReadsAsked'
  BY <1>1, <1>2, RequestsStay
<1>4. KnownRows(history, decided)' /\ InOrder(history, decided)'
  BY <1>1, <1>3, LoggedStays
<1>5. AllDecided'
  BY <1>1, LoggedStays DEF AllDecided
<1> QED
  BY <1>3, <1>4, <1>5 DEF RowsInv

\* Images as they should be, of the first pos[n] entries of lg.
ServersOK(lg, pos, img, snap) ==
    /\ pos \in [Nodes -> 0 .. Len(lg)]
    /\ img \in [Nodes -> Images]
    /\ snap \in [Nodes -> [index : 0 .. Len(lg), image : Images]]
    /\ \A n \in Nodes : /\ img[n] = OnceEach(lg, pos[n])
                        /\ snap[n].image = OnceEach(lg, snap[n].index)

\* What the servers are.
LEMMA ServersAre == SInv => ServersOK(decided, position, image, snapshot)
  BY DEF SInv, ServiceTypeOK, ExactlyOnce, ServersOK

\* What the servers are does not change when the log grows.
LEMMA ServersGrow ==
    ASSUME NEW lg \in Seq(Requests), NEW cmd \in Requests, NEW pos, NEW img, NEW snap,
           ServersOK(lg, pos, img, snap)
    PROVE  ServersOK(Append(lg, cmd), pos, img, snap)
<1> DEFINE more == Append(lg, cmd)
           k == Len(lg)
<1>1. k \in Nat /\ Len(more) = k + 1 /\ 0 .. k \subseteq 0 .. k + 1
  OBVIOUS
<1>2. \A j \in 0 .. k : OnceEach(more, j) = OnceEach(lg, j)
  BY OncePrefix
<1> HIDE DEF more, k
<1>3. /\ pos \in [Nodes -> 0 .. k] /\ img \in [Nodes -> Images]
      /\ snap \in [Nodes -> [index : 0 .. k, image : Images]]
  BY DEF ServersOK, k
<1>4. \A n \in Nodes : pos[n] \in 0 .. k /\ snap[n].index \in 0 .. k
  BY <1>3
<1>5. pos \in [Nodes -> 0 .. k + 1]
  BY <1>1, <1>3
<1>6. snap \in [Nodes -> [index : 0 .. k + 1, image : Images]]
  BY <1>1, <1>3
<1>7. \A n \in Nodes : /\ img[n] = OnceEach(more, pos[n])
                       /\ snap[n].image = OnceEach(more, snap[n].index)
  BY <1>2, <1>4 DEF ServersOK
<1>8. ServersOK(more, pos, img, snap)
  BY <1>1, <1>3, <1>5, <1>6, <1>7 DEF ServersOK
<1> QED
  BY <1>8 DEF more

\* A server may move to any position if it gets the image of that position.
LEMMA ServersMove ==
    ASSUME NEW lg \in Seq(Requests), NEW pos, NEW img, NEW snap, ServersOK(lg, pos, img, snap),
           NEW n \in Nodes, NEW upto \in 0 .. Len(lg), NEW newsnap,
           \/ newsnap = snap
           \/ newsnap = [snap EXCEPT ![n] = [index |-> upto, image |-> OnceEach(lg, upto)]]
    PROVE  ServersOK(lg, [pos EXCEPT ![n] = upto], [img EXCEPT ![n] = OnceEach(lg, upto)],
                     newsnap)
<1> DEFINE E == OnceEach(lg, upto)
<1>1. E \in Images
  BY OnceEachIs
<1>2. E = OnceEach(lg, upto)
  OBVIOUS
<1> HIDE DEF E
<1> DEFINE P == [pos EXCEPT ![n] = upto]
           I == [img EXCEPT ![n] = E]
<1>3. /\ pos \in [Nodes -> 0 .. Len(lg)] /\ img \in [Nodes -> Images]
      /\ snap \in [Nodes -> [index : 0 .. Len(lg), image : Images]]
      /\ \A m \in Nodes : /\ img[m] = OnceEach(lg, pos[m])
                          /\ snap[m].image = OnceEach(lg, snap[m].index)
  BY DEF ServersOK
<1>4. /\ P \in [Nodes -> 0 .. Len(lg)] /\ I \in [Nodes -> Images]
      /\ P[n] = upto /\ I[n] = E
      /\ \A m \in Nodes \ {n} : P[m] = pos[m] /\ I[m] = img[m]
  BY <1>1, <1>3
<1>5. /\ newsnap \in [Nodes -> [index : 0 .. Len(lg), image : Images]]
      /\ \A m \in Nodes : newsnap[m].image = OnceEach(lg, newsnap[m].index)
  <2>1. CASE newsnap = snap
    BY <1>3, <2>1
  <2>2. CASE newsnap = [snap EXCEPT ![n] = [index |-> upto, image |-> E]]
    <3>1. newsnap \in [Nodes -> [index : 0 .. Len(lg), image : Images]]
      BY <1>1, <1>3, <2>2
    <3>2. newsnap[n].image = E /\ newsnap[n].index = upto
      BY <1>3, <2>2
    <3>3. \A m \in Nodes \ {n} : newsnap[m] = snap[m]
      BY <1>3, <2>2
    <3> QED
      BY <1>2, <1>3, <3>1, <3>2, <3>3
  <2> QED
    BY <1>2, <2>1, <2>2
<1> HIDE DEF P, I
<1>6. \A m \in Nodes : I[m] = OnceEach(lg, P[m])
  BY <1>2, <1>3, <1>4
<1>7. ServersOK(lg, P, I, newsnap)
  BY <1>4, <1>5, <1>6 DEF ServersOK
<1> QED
  BY <1>2, <1>7 DEF P, I

\* What the invariant needs after a step.
LEMMA SInvAfter ==
    ASSUME mode' \in Modes, decided' \in Seq(Requests), history' \in Seq(Rows), crashes' \in Nat,
           reads' \subseteq [node : Nodes, client : Clients, req : Nat, floor : Nat],
           ServersOK(decided', position', image', snapshot'), RowsInv'
    PROVE  SInv'
<1>1. ServiceTypeOK'
  BY DEF ServiceTypeOK, ServersOK
<1>2. ExactlyOnce'
  BY DEF ExactlyOnce, ServersOK
<1> QED
  BY <1>1, <1>2 DEF SInv, RowsInv

\* What the invariant says of types, for citing.
LEMMA SInvTypes ==
    ASSUME SInv
    PROVE  /\ mode \in Modes /\ crashes \in Nat
           /\ reads \subseteq [node : Nodes, client : Clients, req : Nat, floor : Nat]
           /\ history \in Seq(Rows) /\ decided \in Seq(Requests)
           /\ Len(decided) \in Nat /\ Len(history) \in Nat
           /\ DOMAIN history = 1 .. Len(history)
           /\ ServersOK(decided, position, image, snapshot)
<1>1. ServiceTypeOK
  BY DEF SInv
<1>2. /\ mode \in Modes /\ crashes \in Nat
      /\ reads \subseteq [node : Nodes, client : Clients, req : Nat, floor : Nat]
  BY <1>1 DEF ServiceTypeOK
<1> QED
  BY <1>1, <1>2, TypesOf, ServersAre

\* Operations are numbered as they are invoked.
LEMMA InvokeRows ==
    ASSUME SInv, NEW c \in Clients, Pending(c) = {}, NEW o \in Operations,
           mode' = mode, decided' = decided, reads' = reads,
           history' = Append(history,
             [client |-> c, req |-> Cardinality(RowsOf(c)) + 1, o |-> o,
              invoked |-> Len(history) + 1, returned |-> 0, observed |-> Absent])
    PROVE  /\ history' \in Seq(Rows) /\ RowsInv'
           /\ DoneDecided(history, decided) => DoneDecided(history, decided)'
<1> DEFINE L == Len(history)
           q == Cardinality(RowsOf(c))
           new == [client |-> c, req |-> q + 1, o |-> o,
                   invoked |-> L + 1, returned |-> 0, observed |-> Absent]
<1>1. /\ history \in Seq(Rows) /\ L \in Nat /\ DOMAIN history = 1 .. L
      /\ Numbered(history) /\ RowsCounted /\ KnownRows(history, decided)
      /\ InOrder(history, decided) /\ ReadsAsked
  BY SInvTypes DEF SInv
<1>2. /\ IsFiniteSet(RowsOf(c)) /\ \A i \in RowsOf(c) : history[i].req <= q
  BY <1>1 DEF RowsCounted
<1>3. q \in Nat
  BY <1>2, FS_CardinalityType
<1>4. Absent \in Results
  BY DEF Results, Stored
<1>5. new \in Rows
  BY <1>1, <1>3, <1>4 DEF Rows
<1>6. /\ new.client = c /\ new.req = q + 1 /\ ~Completed(new)
  BY DEF Completed
<1>7. history' = Append(history, new)
  OBVIOUS
<1> HIDE DEF new, L
<1>8. /\ history' \in Seq(Rows) /\ DOMAIN history' = 1 .. L + 1 /\ history'[L + 1] = new
      /\ \A i \in 1 .. L : history'[i] = history[i]
  BY <1>1, <1>5, <1>7 DEF L
<1>9. \A i \in 1 .. L : history[i].client = c => i \in RowsOf(c)
  BY <1>1 DEF RowsOf
<1>10. \A i \in 1 .. L : history[i].client = c =>
         Completed(history[i]) /\ history[i].req < q + 1
  <2>1. \A i \in RowsOf(c) : Completed(history[i])
    BY DEF Pending
  <2>2. \A i \in 1 .. L : history[i].req \in Nat
    BY <1>1, RowFields
  <2> QED
    BY <1>2, <1>3, <1>9, <2>1, <2>2
<1>11. Numbered(history')
  <2> SUFFICES ASSUME NEW i \in 1 .. L + 1, NEW j \in 1 .. L + 1,
                      history'[i].client = history'[j].client, i < j
               PROVE  history'[i].req < history'[j].req /\ Completed(history'[i])
    BY <1>8 DEF Numbered
  <2>1. i \in 1 .. L
    BY <1>1
  <2>2. CASE j = L + 1
    BY <1>6, <1>8, <1>10, <2>1, <2>2
  <2>3. CASE j # L + 1
    <3>1. j \in 1 .. L
      BY <1>1, <2>3
    <3> QED
      BY <1>1, <1>8, <2>1, <3>1 DEF Numbered
  <2> QED
    BY <2>2, <2>3
<1>12. RowsCounted'
  <2> SUFFICES ASSUME NEW d \in Clients
               PROVE  /\ IsFiniteSet(RowsOf(d)')
                      /\ \A i \in RowsOf(d)' : history'[i].req <= Cardinality(RowsOf(d)')
    BY DEF RowsCounted
  <2>1. /\ IsFiniteSet(RowsOf(d))
        /\ \A i \in RowsOf(d) : history[i].req <= Cardinality(RowsOf(d))
        /\ Cardinality(RowsOf(d)) \in Nat
    BY <1>1, FS_CardinalityType DEF RowsCounted
  <2>2. \A i \in RowsOf(d) : i \in 1 .. L
    BY <1>1 DEF RowsOf
  <2>3. L + 1 \notin RowsOf(d)
    BY <1>1, <2>2
  <2>4. RowsOf(d)' = {i \in 1 .. L + 1 : history'[i].client = d}
    BY <1>8 DEF RowsOf
  <2>5. CASE d # c
    <3>1. RowsOf(d)' = RowsOf(d)
      BY <1>1, <1>6, <1>8, <2>4, <2>5 DEF RowsOf
    <3> QED
      BY <1>8, <2>1, <2>2, <3>1
  <2>6. CASE d = c
    <3>1. RowsOf(d)' = RowsOf(d) \cup {L + 1}
      BY <1>1, <1>6, <1>8, <2>4, <2>6 DEF RowsOf
    <3>2. IsFiniteSet(RowsOf(d)') /\ Cardinality(RowsOf(d)') = q + 1
      BY <2>1, <2>3, <2>6, <3>1, FS_AddElement
    <3>3. ASSUME NEW i \in RowsOf(d)' PROVE history'[i].req <= q + 1
      <4>1. CASE i = L + 1
        BY <1>3, <1>6, <1>8, <4>1
      <4>2. CASE i \in RowsOf(d)
        <5> DEFINE h == history[i].req
        <5>1. history'[i].req = h /\ h <= q
          BY <1>1, <1>2, <1>8, <2>2, <2>6, <4>2
        <5>2. h \in Nat
          BY <1>1, <2>2, <2>6, <4>2, RowFields
        <5> HIDE DEF h
        <5>3. h <= q + 1
          BY <1>3, <5>1, <5>2
        <5> QED
          BY <5>1, <5>3
      <4> QED
        BY <3>1, <3>3, <4>1, <4>2
    <3> QED
      BY <3>2, <3>3
  <2> QED
    BY <2>5, <2>6
<1>13. KnownRows(history', decided)
  <2> SUFFICES ASSUME NEW k \in 1 .. Len(decided)
               PROVE  \E i \in DOMAIN history' : /\ decided[k] = Command(history'[i])
                                                 /\ Logged(history'[i])
                                                 /\ Completed(history'[i])
    BY DEF KnownRows
  <2>1. PICK i \in 1 .. L :
          decided[k] = Command(history[i]) /\ Logged(history[i]) /\ Completed(history[i])
    BY <1>1 DEF KnownRows
  <2>2. i \in DOMAIN history' /\ history'[i] = history[i]
    BY <1>1, <1>8
  <2> QED
    BY <2>1, <2>2
<1>14. InOrder(history', decided)
  <2> SUFFICES ASSUME NEW k \in 1 .. Len(decided), NEW i \in 1 .. L + 1, Logged(history'[i]),
                      history'[i].client = decided[k].client,
                      history'[i].req < decided[k].req
               PROVE  \E j \in 1 .. k - 1 : decided[j] = Command(history'[i])
    BY <1>8 DEF InOrder
  <2>1. PICK a \in 1 .. L : decided[k] = Command(history[a])
    BY <1>1 DEF KnownRows
  <2>2. decided[k].client = history[a].client /\ decided[k].req = history[a].req
    BY <2>1, CommandIs
  <2>3. i # L + 1
    <3>1. SUFFICES ASSUME i = L + 1 PROVE FALSE
      OBVIOUS
    <3>2. history[a].client = c /\ q + 1 < history[a].req
      BY <1>6, <1>8, <2>2, <3>1
    <3>3. history[a].req < q + 1 /\ history[a].req \in Nat
      BY <1>1, <1>10, <3>2, RowFields
    <3> QED
      BY <1>3, <3>2, <3>3
  <2>4. i \in 1 .. L
    BY <1>1, <2>3
  <2> QED
    BY <1>1, <1>8, <2>4 DEF InOrder
<1>15. ReadsAsked'
  <2> SUFFICES ASSUME NEW r \in reads
               PROVE  /\ mode' = "readindex"
                      /\ \E i \in DOMAIN history' :
                           /\ history'[i].client = r.client /\ history'[i].req = r.req
                           /\ ~Logged(history[i])'
    BY DEF ReadsAsked
  <2>1. mode = "readindex"
    BY <1>1 DEF ReadsAsked
  <2>2. PICK i \in 1 .. L :
          history[i].client = r.client /\ history[i].req = r.req /\ ~Logged(history[i])
    BY <1>1 DEF ReadsAsked
  <2>3. i \in DOMAIN history' /\ history'[i] = history[i]
    BY <1>1, <1>8, <2>2
  <2>4. ~Logged(history[i])'
    BY <2>2, <2>3 DEF Logged
  <2> QED
    BY <2>1, <2>2, <2>3, <2>4
<1>16. ASSUME DoneDecided(history, decided) PROVE DoneDecided(history', decided)
  BY <1>1, <1>6, <1>8, <1>16 DEF DoneDecided
<1> QED
  BY <1>8, <1>11, <1>12, <1>13, <1>14, <1>15, <1>16, LoggedStays DEF RowsInv

\* Invoke keeps the invariant.
LEMMA InvokeS ==
    ASSUME SInv, AllDecided, NEW c \in Clients, Invoke(c), verdict' = verdict
    PROVE  SInv' /\ AllDecided'
<1>1. /\ Pending(c) = {} /\ UNCHANGED <<mode, clusterVars>>
      /\ \E o \in Workload :
           history' = Append(history,
             [client |-> c, req |-> Cardinality(RowsOf(c)) + 1, o |-> o,
              invoked |-> Len(history) + 1, returned |-> 0, observed |-> Absent])
  BY DEF Invoke
<1>2. UNCHANGED <<mode, decided, position, image, snapshot, reads, crashes>>
  BY <1>1 DEF clusterVars
<1>3. \A o \in Workload : o \in Operations
  BY ServiceAssumption
<1>4. /\ history' \in Seq(Rows) /\ RowsInv'
      /\ DoneDecided(history, decided) => DoneDecided(history, decided)'
  BY <1>1, <1>2, <1>3, InvokeRows
<1>5. AllDecided'
  BY <1>4 DEF AllDecided
<1>6. SInv'
  BY <1>2, <1>4, SInvTypes, SInvAfter
<1> QED
  BY <1>5, <1>6

\* Learn keeps the invariant.
LEMMA LearnS ==
    ASSUME SInv, AllDecided, NEW n \in Nodes, Learn(n), verdict' = verdict
    PROVE  SInv' /\ AllDecided'
<1>1. PICK upto : Learnt(n, upto)
  BY LearnIs
<1>2. UNCHANGED <<mode, decided, history, reads, crashes>>
  BY <1>1 DEF Learnt
<1>3. RowsInv' /\ AllDecided'
  BY <1>2, RowsStay
<1>4. /\ decided \in Seq(Requests) /\ Len(decided) \in Nat
      /\ ServersOK(decided, position, image, snapshot)
      /\ position[n] \in Nat /\ upto \in position[n] + 1 .. Len(decided)
  BY <1>1, SInvTypes, TypesOf DEF SInv, Learnt
<1>5. upto \in 0 .. Len(decided)
  BY <1>4
<1>6. ServersOK(decided, [position EXCEPT ![n] = upto],
                [image EXCEPT ![n] = OnceEach(decided, upto)], snapshot')
  BY <1>1, <1>4, <1>5, ServersMove DEF Learnt
<1>7. ServersOK(decided', position', image', snapshot')
  BY <1>1, <1>2, <1>6 DEF Learnt
<1>8. SInv'
  BY <1>2, <1>3, <1>7, SInvTypes, SInvAfter
<1> QED
  BY <1>3, <1>8

\* Install keeps the invariant.
LEMMA InstallS ==
    ASSUME SInv, AllDecided, NEW n \in Nodes, NEW p \in Nodes, Install(n, p), verdict' = verdict
    PROVE  SInv' /\ AllDecided'
<1> DEFINE s == snapshot[p]
<1>1. /\ position' = [position EXCEPT ![n] = s.index]
      /\ image' = [image EXCEPT ![n] = s.image]
      /\ snapshot' = [snapshot EXCEPT ![n] = s]
      /\ UNCHANGED <<mode, decided, reads, history, crashes>>
  BY DEF Install, Restore
<1>2. RowsInv' /\ AllDecided'
  BY <1>1, RowsStay
<1>3. /\ decided \in Seq(Requests) /\ ServersOK(decided, position, image, snapshot)
  BY SInvTypes
<1>4. /\ s \in [index : 0 .. Len(decided), image : Images]
      /\ s.image = OnceEach(decided, s.index)
  BY <1>3 DEF ServersOK
<1>5. s.index \in 0 .. Len(decided) /\ s = [index |-> s.index, image |-> s.image]
  BY <1>4
<1> DEFINE u == s.index
           E == OnceEach(decided, u)
<1>6. s = [index |-> u, image |-> E] /\ s.image = E
  BY <1>4, <1>5
<1> HIDE DEF s
<1>7. ServersOK(decided, [position EXCEPT ![n] = u], [image EXCEPT ![n] = E],
                [snapshot EXCEPT ![n] = [index |-> u, image |-> E]])
  BY <1>3, <1>5, ServersMove
<1>8. ServersOK(decided', position', image', snapshot')
  <2> HIDE DEF E, u
  <2>1. /\ position' = [position EXCEPT ![n] = u] /\ image' = [image EXCEPT ![n] = E]
        /\ snapshot' = [snapshot EXCEPT ![n] = [index |-> u, image |-> E]]
        /\ decided' = decided
    BY <1>1, <1>6 DEF u
  <2> QED
    BY <1>7, <2>1
<1>9. SInv'
  BY <1>1, <1>2, <1>8, SInvTypes, SInvAfter
<1> QED
  BY <1>2, <1>9

\* Crash keeps the invariant.
LEMMA CrashS ==
    ASSUME SInv, AllDecided, NEW n \in Nodes, Crash(n), verdict' = verdict
    PROVE  SInv' /\ AllDecided'
<1> DEFINE s == snapshot[n]
<1>1. /\ position' = [position EXCEPT ![n] = s.index]
      /\ image' = [image EXCEPT ![n] = s.image]
      /\ crashes' = crashes + 1 /\ reads' = {r \in reads : r.node # n}
      /\ UNCHANGED <<mode, decided, history, snapshot>>
  BY DEF Crash, Restore
<1>2. RowsInv' /\ AllDecided'
  BY <1>1, RowsStay
<1>3. /\ decided \in Seq(Requests) /\ ServersOK(decided, position, image, snapshot)
  BY SInvTypes
<1>4. /\ s \in [index : 0 .. Len(decided), image : Images]
      /\ s.image = OnceEach(decided, s.index)
  BY <1>3 DEF ServersOK
<1>5. s.index \in 0 .. Len(decided)
  BY <1>4
<1> DEFINE u == s.index
           E == OnceEach(decided, u)
<1> HIDE DEF s
<1>7. ServersOK(decided, [position EXCEPT ![n] = u], [image EXCEPT ![n] = E], snapshot)
  BY <1>3, <1>5, ServersMove
<1>8. ServersOK(decided', position', image', snapshot')
  <2> HIDE DEF E, u
  <2>1. /\ position' = [position EXCEPT ![n] = u] /\ image' = [image EXCEPT ![n] = E]
        /\ snapshot' = snapshot /\ decided' = decided
    BY <1>1, <1>4 DEF u, E
  <2> QED
    BY <1>7, <2>1
<1>9. SInv'
  <2>1. crashes' \in Nat
    BY <1>1, SInvTypes
  <2> QED
    BY <1>1, <1>2, <1>8, <2>1, SInvTypes, SInvAfter
<1> QED
  BY <1>2, <1>9

\* RequestRead keeps the invariant.
LEMMA RequestReadS ==
    ASSUME SInv, AllDecided, NEW n \in Nodes, NEW c \in Clients, RequestRead(n, c),
           verdict' = verdict
    PROVE  SInv' /\ AllDecided'
<1>1. /\ mode = "readindex"
      /\ UNCHANGED <<mode, decided, position, image, snapshot, history, crashes>>
  BY DEF RequestRead
<1>2. PICK i \in Pending(c) :
        /\ ~Logged(history[i])
        /\ reads' = reads \cup {[node |-> n, client |-> c, req |-> history[i].req,
                                 floor |-> Len(decided)]}
  BY DEF RequestRead
<1> DEFINE new == [node |-> n, client |-> c, req |-> history[i].req, floor |-> Len(decided)]
<1>3. i \in DOMAIN history /\ history[i].client = c
  BY DEF Pending, RowsOf
<1>4. history \in Seq(Rows) /\ Len(decided) \in Nat
  BY SInvTypes
<1>5. history[i].req \in Nat
  BY <1>3, <1>4, RowFields
<1>6. new \in [node : Nodes, client : Clients, req : Nat, floor : Nat]
  BY <1>4, <1>5
<1>7. new.client = history[i].client /\ new.req = history[i].req
  BY <1>3
<1>8. reads' = reads \cup {new}
  BY <1>2
<1> HIDE DEF new
<1>9. Asks(new)
  BY <1>1, <1>2, <1>3, <1>7 DEF Asks
<1>10. RowsInv' /\ AllDecided'
  BY <1>1, <1>8, <1>9, RowsStay
<1>11. SInv'
  BY <1>1, <1>6, <1>8, <1>10, SInvTypes, SInvAfter
<1> QED
  BY <1>10, <1>11

\* What an answer for the request cmd does to the row i.
LEMMA AnswerRow ==
    ASSUME NEW rows \in Seq(Rows), NEW cmd, NEW result \in Results, NEW i \in DOMAIN rows
    PROVE  LET new == OnApply(rows, cmd, result)[i]
           IN /\ Completed(new) => Completed(rows[i]) \/ Command(rows[i]) = cmd
              /\ Command(rows[i]) = cmd /\ Len(rows) # 0 => Completed(new)
<1> DEFINE new == OnApply(rows, cmd, result)[i]
<1>1. new = Answered(rows[i], cmd, result, Len(rows))
  BY OnApplyRows
<1>2. rows[i] \in Rows
  OBVIOUS
<1> HIDE DEF new
<1>3. CASE Command(rows[i]) = cmd /\ ~Completed(rows[i])
  <2>1. new = [rows[i] EXCEPT !.returned = Len(rows), !.observed = result]
    BY <1>1, <1>3 DEF Answered
  <2>2. new.returned = Len(rows)
    BY <1>2, <2>1 DEF Rows
  <2> QED
    BY <1>3, <2>2 DEF Completed, new
<1>4. CASE ~(Command(rows[i]) = cmd /\ ~Completed(rows[i]))
  BY <1>1, <1>4 DEF Answered, new
<1> QED
  BY <1>3, <1>4

\* Commit keeps the invariant.
LEMMA CommitS ==
    ASSUME SInv, AllDecided, verdict = "none", NEW n \in Nodes, Commit(n), verdict' = verdict
    PROVE  SInv' /\ AllDecided'
<1>1. DoneDecided(history, decided)
  BY DEF AllDecided
<1>2. PICK i \in DOMAIN history : Committed(n, i)
  BY <1>1, CommitIs
<1> DEFINE cmd == Command(history[i])
           k == Len(decided)
           more == Append(decided, cmd)
           result == Apply(OnceEach(decided, k), cmd).result
<1>3. /\ history \in Seq(Rows) /\ decided \in Seq(Requests) /\ k \in Nat
      /\ Len(history) \in Nat /\ DOMAIN history = 1 .. Len(history)
      /\ ServersOK(decided, position, image, snapshot)
  BY SInvTypes
<1>4. cmd \in Requests
  BY <1>3, RowFields
<1>5. result \in Results
  <2>1. OnceEach(decided, k) \in Images
    BY <1>3, OnceEachIs
  <2> QED
    BY <1>4, <2>1, ApplyTyped
<1>6. /\ Logged(history[i]) /\ decided' = more
      /\ history' = OnApply(history, cmd, result)
      /\ InOrder(history, more)
      /\ UNCHANGED <<mode, reads, crashes>>
  BY <1>2 DEF Committed
<1>7. /\ more \in Seq(Requests) /\ Len(more) = k + 1
      /\ more[k + 1] = cmd /\ \A j \in 1 .. k : more[j] = decided[j]
  BY <1>3, <1>4
<1> HIDE DEF result
<1>8. history' \in Seq(Rows) /\ SameRequests(history, history')
  BY <1>3, <1>5, <1>6, OnApplyRows, AnswerSame
<1>9. /\ Numbered(history') /\ RowsCounted' /\ KnownRows(history', decided)
      /\ InOrder(history', more) /\ ReadsAsked'
  BY <1>6, <1>8, RequestsStay
<1>10. Len(history) # 0
  BY <1>3
<1>11. /\ Completed(history'[i]) /\ Command(history'[i]) = cmd /\ Logged(history'[i])
       /\ i \in DOMAIN history'
  <2>1. Completed(history'[i])
    BY <1>3, <1>5, <1>6, <1>10, AnswerRow
  <2>2. Command(history'[i]) = cmd /\ i \in DOMAIN history'
    BY <1>8 DEF SameRequests
  <2>3. history'[i].o = history[i].o
    BY <2>2, CommandIs
  <2> QED
    BY <1>6, <2>1, <2>2, <2>3, SameLogged
<1>12. KnownRows(history', more)
  BY <1>3, <1>4, <1>9, <1>11, KnownPrefix
<1>13. DoneDecided(history', more)
  <2> SUFFICES ASSUME NEW a \in DOMAIN history', Completed(history'[a]), Logged(history'[a])
               PROVE  \E j \in 1 .. Len(more) : more[j] = Command(history'[a])
    BY DEF DoneDecided
  <2>1. a \in DOMAIN history /\ Command(history'[a]) = Command(history[a])
    BY <1>8 DEF SameRequests
  <2>2. CASE Command(history[a]) = cmd
    <3>1. k + 1 \in 1 .. Len(more)
      BY <1>3, <1>7
    <3> QED
      BY <1>7, <2>1, <2>2, <3>1
  <2>3. CASE Command(history[a]) # cmd
    <3>1. Completed(history[a])
      BY <1>3, <1>5, <1>6, <2>1, <2>3, AnswerRow
    <3>2. history'[a].o = history[a].o
      BY <2>1, CommandIs
    <3>3. Logged(history[a])
      BY <3>2, SameLogged
    <3>4. PICK j \in 1 .. k : decided[j] = Command(history[a])
      BY <1>1, <2>1, <3>1, <3>3 DEF DoneDecided
    <3>5. j \in 1 .. Len(more)
      BY <1>3, <1>7
    <3> QED
      BY <1>7, <2>1, <3>4, <3>5
  <2> QED
    BY <2>2, <2>3
<1>14. RowsInv' /\ AllDecided'
  BY <1>6, <1>9, <1>12, <1>13, LoggedStays DEF RowsInv, AllDecided
<1>15. ServersOK(decided', position', image', snapshot')
  <2> DEFINE u == k + 1
             E == OnceEach(more, u)
  <2>1. ServersOK(more, position, image, snapshot)
    BY <1>3, <1>4, ServersGrow
  <2>2. u \in 0 .. Len(more)
    BY <1>3, <1>7
  <2>3. /\ position' = [position EXCEPT ![n] = u] /\ image' = [image EXCEPT ![n] = E]
        /\ \/ snapshot' = snapshot
           \/ snapshot' = [snapshot EXCEPT ![n] = [index |-> u, image |-> E]]
    BY <1>2 DEF Committed
  <2> HIDE DEF u, more
  <2>4. ServersOK(more, [position EXCEPT ![n] = u], [image EXCEPT ![n] = E], snapshot')
    BY <1>7, <2>1, <2>2, <2>3, ServersMove
  <2> HIDE DEF E
  <2> QED
    BY <1>6, <2>3, <2>4
<1>16. SInv'
  BY <1>6, <1>7, <1>8, <1>14, <1>15, SInvTypes, SInvAfter
<1> QED
  BY <1>14, <1>16

\* An answer to a request that no log holds.
LEMMA ReadAnswered ==
    ASSUME SInv, AllDecided, NEW i \in DOMAIN history, ~Logged(history[i]),
           NEW n \in Nodes, Answer(n, history[i]),
           UNCHANGED <<mode, decided, position, image, snapshot, crashes>>,
           \A r \in reads' : r \in reads, verdict' = verdict
    PROVE  SInv' /\ AllDecided'
<1> DEFINE cmd == Command(history[i])
           result == image[n].store[history[i].o.key]
<1>1. /\ history \in Seq(Rows) /\ ServersOK(decided, position, image, snapshot)
      /\ reads \subseteq [node : Nodes, client : Clients, req : Nat, floor : Nat]
      /\ InOrder(history, decided)
  BY SInvTypes DEF SInv
<1>2. result \in Results
  <2>1. image[n] \in Images
    BY <1>1 DEF ServersOK
  <2>2. image[n].store \in Stores
    BY <2>1 DEF Images
  <2>3. history[i].o \in Operations
    BY <1>1, RowFields
  <2>4. history[i].o.key \in Keys
    BY <2>3 DEF Operations
  <2> QED
    BY <2>2, <2>4 DEF Stores, Results
<1>3. history' = OnApply(history, cmd, result)
  BY DEF Answer
<1> HIDE DEF result
<1>4. history' \in Seq(Rows) /\ SameRequests(history, history')
  BY <1>1, <1>2, <1>3, OnApplyRows, AnswerSame
<1>5. /\ Numbered(history') /\ RowsCounted' /\ KnownRows(history', decided)
      /\ InOrder(history', decided) /\ ReadsAsked'
  BY <1>1, <1>4, RequestsStay
<1>6. ASSUME DoneDecided(history, decided) PROVE DoneDecided(history', decided)
  <2> SUFFICES ASSUME NEW a \in DOMAIN history', Completed(history'[a]), Logged(history'[a])
               PROVE  \E j \in 1 .. Len(decided) : decided[j] = Command(history'[a])
    BY DEF DoneDecided
  <2>1. a \in DOMAIN history /\ Command(history'[a]) = Command(history[a])
    BY <1>4 DEF SameRequests
  <2>2. history'[a].o = history[a].o
    BY <2>1, CommandIs
  <2>3. Logged(history[a])
    BY <2>2, SameLogged
  <2>4. Command(history[a]) # cmd
    <3>1. SUFFICES ASSUME Command(history[a]) = cmd PROVE FALSE
      OBVIOUS
    <3>2. history[a].o = history[i].o
      BY <3>1, CommandIs
    <3> QED
      BY <2>3, <3>2, SameLogged
  <2>5. Completed(history[a])
    BY <1>1, <1>2, <1>3, <2>1, <2>4, AnswerRow
  <2> QED
    BY <1>6, <2>1, <2>3, <2>5 DEF DoneDecided
<1>7. RowsInv' /\ AllDecided'
  BY <1>5, <1>6, LoggedStays DEF RowsInv, AllDecided
<1>8. SInv'
  BY <1>1, <1>4, <1>7, SInvTypes, SInvAfter
<1> QED
  BY <1>7, <1>8

\* StaleRead keeps the invariant.
LEMMA StaleReadS ==
    ASSUME SInv, AllDecided, NEW n \in Nodes, NEW c \in Clients, StaleRead(n, c),
           verdict' = verdict
    PROVE  SInv' /\ AllDecided'
<1>1. PICK i \in Pending(c) : ~Logged(history[i]) /\ Answer(n, history[i])
  BY DEF StaleRead
<1>2. i \in DOMAIN history
  BY DEF Pending, RowsOf
<1>3. UNCHANGED <<mode, decided, position, image, snapshot, crashes, reads>>
  BY DEF StaleRead, clusterVars
<1> QED
  BY <1>1, <1>2, <1>3, ReadAnswered

\* The row a read is served for is the one it was requested for.
LEMMA ServedRow ==
    ASSUME SInv, NEW r \in reads, NEW row \in Range(history),
           row.client = r.client, row.req = r.req
    PROVE  \E i \in DOMAIN history : row = history[i] /\ ~Logged(history[i])
<1>1. PICK i \in DOMAIN history : row = history[i]
  BY DEF Range
<1>2. PICK a \in DOMAIN history :
        history[a].client = r.client /\ history[a].req = r.req /\ ~Logged(history[a])
  BY DEF SInv, ReadsAsked
<1>3. history \in Seq(Rows) /\ Numbered(history)
  BY SInvTypes DEF SInv
<1>4. a = i
  BY <1>1, <1>2, <1>3, RowUnique
<1> QED
  BY <1>1, <1>2, <1>4

\* ServeRead keeps the invariant.
LEMMA ServeReadS ==
    ASSUME SInv, AllDecided, ServeRead, verdict' = verdict
    PROVE  SInv' /\ AllDecided'
<1>1. PICK r \in reads : /\ reads' = reads \ {r}
                         /\ \E row \in Range(history) :
                              /\ row.client = r.client /\ row.req = r.req
                              /\ Answer(r.node, row)
  BY DEF ServeRead
<1>2. PICK row \in Range(history) : /\ row.client = r.client /\ row.req = r.req
                                    /\ Answer(r.node, row)
  BY <1>1
<1>3. PICK i \in DOMAIN history : row = history[i] /\ ~Logged(history[i])
  BY <1>2, ServedRow
<1>4. r.node \in Nodes
  BY SInvTypes
<1>5. UNCHANGED <<mode, decided, position, image, snapshot, crashes>>
  BY DEF ServeRead
<1> QED
  BY <1>1, <1>2, <1>3, <1>4, <1>5, ReadAnswered

\* Every step of the service keeps the invariant.
LEMMA ServiceStep ==
    ASSUME SInv, AllDecided, verdict = "none", ServiceNext, verdict' = verdict
    PROVE  SInv' /\ AllDecided'
<1>1. CASE \E c \in Clients : Invoke(c)
  BY <1>1, InvokeS
<1>2. CASE \E n \in Nodes : Commit(n) \/ Learn(n) \/ Crash(n)
  <2>1. PICK n \in Nodes : Commit(n) \/ Learn(n) \/ Crash(n)
    BY <1>2
  <2>2. CASE Commit(n)
    BY <2>2, CommitS
  <2>3. CASE Learn(n)
    BY <2>3, LearnS
  <2>4. CASE Crash(n)
    BY <2>4, CrashS
  <2> QED
    BY <2>1, <2>2, <2>3, <2>4
<1>3. CASE \E n, p \in Nodes : Install(n, p)
  BY <1>3, InstallS
<1>4. CASE \E n \in Nodes, c \in Clients : RequestRead(n, c) \/ StaleRead(n, c)
  <2>1. PICK n \in Nodes, c \in Clients : RequestRead(n, c) \/ StaleRead(n, c)
    BY <1>4
  <2>2. CASE RequestRead(n, c)
    BY <2>2, RequestReadS
  <2>3. CASE StaleRead(n, c)
    BY <2>3, StaleReadS
  <2> QED
    BY <2>1, <2>2, <2>3
<1>5. CASE ServeRead
  BY <1>5, ServeReadS
<1> QED
  BY <1>1, <1>2, <1>3, <1>4, <1>5 DEF ServiceNext

\* A service that has just started, whatever the clients remember.
LEMMA FreshServers ==
    ServersOK(<<>>, [n \in Nodes |-> 0], [n \in Nodes |-> EmptyImage],
              [n \in Nodes |-> [index |-> 0, image |-> EmptyImage]])
<1> DEFINE lg == <<>>
           E == EmptyImage
<1>1. lg \in Seq(Requests) /\ Len(lg) = 0 /\ 0 \in 0 .. Len(lg)
  OBVIOUS
<1>2. E \in Images /\ OnceEach(lg, 0) = E
  BY <1>1, EmptyTyped, OnceEachIs
<1> HIDE DEF lg, E
<1>3. ServersOK(lg, [n \in Nodes |-> 0], [n \in Nodes |-> E],
                [n \in Nodes |-> [index |-> 0, image |-> E]])
  BY <1>1, <1>2 DEF ServersOK
<1> QED
  BY <1>3 DEF lg, E

\* The end of a run keeps the invariant.
LEMMA StopS ==
    ASSUME SInv, StopAndCheck
    PROVE  SInv' /\ AllDecided'
<1>1. /\ decided' = <<>> /\ reads' = {} /\ crashes' = 0 /\ UNCHANGED <<mode, history>>
      /\ verdict' # "none"
  BY DEF StopAndCheck, Start
<1>2. /\ position' = [n \in Nodes |-> 0] /\ image' = [n \in Nodes |-> EmptyImage]
      /\ snapshot' = [n \in Nodes |-> [index |-> 0, image |-> EmptyImage]]
  BY DEF StopAndCheck
<1>3. ServersOK(decided', position', image', snapshot')
  BY <1>1, <1>2, FreshServers
<1>4. history \in Seq(Rows) /\ SameRequests(history, history')
  BY <1>1, SInvTypes DEF SameRequests
<1>5. Numbered(history') /\ RowsCounted' /\ ReadsAsked'
  BY <1>1, <1>4, RequestsStay
<1>6. Len(decided') = 0 /\ decided' \in Seq(Requests) /\ 1 .. 0 = {}
  BY <1>1
<1>7. KnownRows(history', decided') /\ InOrder(history', decided')
  BY <1>6 DEF KnownRows, InOrder
<1>8. RowsInv'
  BY <1>1, <1>5, <1>7, LoggedStays DEF RowsInv
<1>9. SInv'
  BY <1>1, <1>3, <1>4, <1>6, <1>8, SInvTypes, SInvAfter
<1> QED
  BY <1>1, <1>9 DEF AllDecided

\* The search runs once the check has started, and does not start it again.
LEMMA SearchIs == Search => verdict = "searching" /\ verdict' # "none"
  BY DEF Search, Accept, Backtrack, Mismatch, DeadEnd, Place

\* A step of the oracle alone keeps the invariant of the service.
LEMMA ServiceVarsStay ==
    ASSUME SInv, AllDecided, UNCHANGED serviceVars, verdict' = "none" => verdict = "none"
    PROVE  SInv' /\ AllDecided'
<1>1. UNCHANGED <<mode, decided, position, image, snapshot, reads, crashes, history>>
  BY DEF serviceVars, clusterVars
<1>2. SInv'
  BY <1>1 DEF SInv, ServiceTypeOK, RowsCounted, RowsOf, KnownRows, InOrder, ReadsAsked, Logged,
              ExactlyOnce
<1>3. AllDecided'
  BY <1>1, LoggedStays DEF AllDecided
<1> QED
  BY <1>2, <1>3

\* The invariant holds at first.
LEMMA ServiceInitOK == Init => SInv /\ AllDecided
<1> SUFFICES ASSUME Init PROVE SInv /\ AllDecided
  OBVIOUS
<1>1. /\ mode \in Modes /\ decided = <<>> /\ reads = {} /\ history = <<>> /\ crashes = 0
      /\ position = [n \in Nodes |-> 0] /\ image = [n \in Nodes |-> EmptyImage]
      /\ snapshot = [n \in Nodes |-> [index |-> 0, image |-> EmptyImage]]
  BY DEF Init, ServiceInit
<1>2. ServersOK(decided, position, image, snapshot)
  BY <1>1, FreshServers
<1>3. ServiceTypeOK /\ ExactlyOnce
  BY <1>1, <1>2 DEF ServiceTypeOK, ExactlyOnce, ServersOK
<1>4. DOMAIN history = {} /\ 1 .. Len(decided) = {}
  BY <1>1
<1>5. RowsCounted
  <2>1. \A c : RowsOf(c) = {}
    BY <1>4 DEF RowsOf
  <2> QED
    BY <2>1, FS_EmptySet DEF RowsCounted
<1>6. /\ Numbered(history) /\ KnownRows(history, decided) /\ InOrder(history, decided)
      /\ ReadsAsked /\ DoneDecided(history, decided)
  BY <1>1, <1>4 DEF Numbered, KnownRows, InOrder, ReadsAsked, DoneDecided
<1> QED
  BY <1>3, <1>5, <1>6 DEF SInv, AllDecided

\* The invariant is inductive.
LEMMA ServiceStepOK == SInv /\ AllDecided /\ [Next]_vars => SInv' /\ AllDecided'
<1> SUFFICES ASSUME SInv, AllDecided, [Next]_vars PROVE SInv' /\ AllDecided'
  OBVIOUS
<1>1. CASE verdict = "none" /\ ServiceNext /\ UNCHANGED oracleVars
  BY <1>1, ServiceStep DEF oracleVars
<1>2. CASE StopAndCheck
  BY <1>2, StopS
<1>3. CASE Search /\ UNCHANGED serviceVars
  BY <1>3, SearchIs, ServiceVarsStay
<1>4. CASE UNCHANGED vars
  BY <1>4, ServiceVarsStay DEF vars, oracleVars
<1> QED
  BY <1>1, <1>2, <1>3, <1>4 DEF Next

\* Every request takes effect once, on every server and in every snapshot, however
\* often it was committed, replayed after a crash or skipped by a snapshot
\* (KVStateMachine.apply, is_duplicate, capture and restore).
THEOREM RequestsTakeEffectOnce == Spec => []ExactlyOnce
<1>1. SInv => ExactlyOnce
  BY DEF SInv
<1> QED
  BY <1>1, ServiceInitOK, ServiceStepOK, PTL DEF Spec

-----------------------------------------------------------------------------
(***************************************************************************)
(* The history that is checked: the rows of the run that are complete, in  *)
(* their order.                                                            *)
(***************************************************************************)
\* What one more row adds to the completed ones.
Completed1(acc, row) == IF row.returned # 0 THEN Append(acc, row) ELSE acc
CompletedStep == [p \in Seq(Rows) \X Rows |-> Completed1(p[1], p[2])]

\* A step of Completions keeps its types.
LEMMA CompletedTyped == CompletedStep \in [Seq(Rows) \X Rows -> Seq(Rows)]
<1>1. \A acc \in Seq(Rows), row \in Rows : Completed1(acc, row) \in Seq(Rows)
  BY DEF Completed1
<1> QED
  BY <1>1 DEF CompletedStep

\* Completions is a fold.
LEMMA CompletionsFold ==
    ASSUME NEW rows \in Seq(Rows)
    PROVE  FoldsTo(Seq(Rows), CompletedStep, <<>>, rows, Completions(rows))
<1> DEFINE D == DOMAIN rows
           Rec(g) == g = [T \in SUBSET D |->
                            IF T = {} THEN <<>>
                            ELSE Completed1(g[T \ {Max(T)}], rows[Max(T)])]
<1>1. Completions(rows) = (CHOOSE g : Rec(g))[D]
  BY DEF Completions, FoldLeft, MapThenFoldSet, Completed1
<1>0. <<>> \in Seq(Rows)
  OBVIOUS
<1>2. PICK g : Folds1(g, Seq(Rows), CompletedStep, <<>>, rows, Len(rows))
  BY <1>0, CompletedTyped, FoldExists
<1>3. D = 1 .. Len(rows) /\ Len(rows) \in Nat /\ \A i \in D : rows[i] \in Rows
  OBVIOUS
<1> HIDE DEF D
<1>4. \A T \in SUBSET D : T # {} => Max(T) \in D /\ T \ {Max(T)} \in SUBSET D
  BY <1>3, MaxIn
<1>5. ASSUME NEW a \in Seq(Rows), NEW T \in SUBSET D, T # {}
      PROVE  Completed1(a, rows[Max(T)]) = CompletedStep[<<a, rows[Max(T)]>>]
  BY <1>3, <1>4, <1>5 DEF CompletedStep
<1>6. Rec(g)
  <2>1. g \in [SUBSET D -> Seq(Rows)]
    BY <1>2, <1>3 DEF Folds1
  <2>2. ASSUME NEW T \in SUBSET D
        PROVE  g[T] = IF T = {} THEN <<>> ELSE Completed1(g[T \ {Max(T)}], rows[Max(T)])
    BY <1>2, <1>3, <1>4, <1>5, <2>1, <2>2 DEF Folds1
  <2> QED
    BY <2>1, <2>2
<1>7. ASSUME NEW f, Rec(f) PROVE FoldsTo(Seq(Rows), CompletedStep, <<>>, rows, f[D])
  <2>1. FoldsIn(f, Seq(Rows), CompletedStep, <<>>, rows)
    <3>1. \A T \in SUBSET D :
            f[T] = IF T = {} THEN <<>> ELSE Completed1(f[T \ {Max(T)}], rows[Max(T)])
      BY <1>7
    <3> QED
      BY <1>3, <1>5, <3>1 DEF FoldsIn
  <2> QED
    BY <1>0, <1>3, <2>1, CompletedTyped, FoldsInFolds
<1>8. Rec(CHOOSE h : Rec(h))
  <2> HIDE DEF Rec
  <2> QED
    BY <1>6
<1> QED
  BY <1>1, <1>7, <1>8

\* f says where each element of s is among the first k rows: s has those that are
\* completed, each once and in their order.
Embeds(rows, k, s, f) ==
    /\ s \in Seq(Rows)
    /\ f \in [1 .. Len(s) -> 1 .. k]
    /\ \A a, b \in 1 .. Len(s) : a < b => f[a] < f[b]
    /\ \A a \in 1 .. Len(s) : s[a] = rows[f[a]] /\ Completed(rows[f[a]])
    /\ \A i \in 1 .. k : Completed(rows[i]) => \E a \in 1 .. Len(s) : f[a] = i

\* One row more.
LEMMA EmbedsMore ==
    ASSUME NEW rows \in Seq(Rows), NEW k \in 1 .. Len(rows), NEW s, NEW f,
           Embeds(rows, k - 1, s, f)
    PROVE  \E g : Embeds(rows, k, Completed1(s, rows[k]), g)
<1>1. /\ s \in Seq(Rows) /\ f \in [1 .. Len(s) -> 1 .. k - 1]
      /\ \A a, b \in 1 .. Len(s) : a < b => f[a] < f[b]
      /\ \A a \in 1 .. Len(s) : s[a] = rows[f[a]] /\ Completed(rows[f[a]])
      /\ \A i \in 1 .. k - 1 : Completed(rows[i]) => \E a \in 1 .. Len(s) : f[a] = i
  BY DEF Embeds
<1>2. Len(s) \in Nat /\ k \in Nat \ {0} /\ rows[k] \in Rows
  BY <1>1
<1>3. CASE ~Completed(rows[k])
  <2>1. Completed1(s, rows[k]) = s
    BY <1>3 DEF Completed, Completed1
  <2>2. f \in [1 .. Len(s) -> 1 .. k]
    BY <1>1, <1>2
  <2>3. \A i \in 1 .. k : Completed(rows[i]) => \E a \in 1 .. Len(s) : f[a] = i
    BY <1>1, <1>2, <1>3
  <2>4. Embeds(rows, k, s, f)
    BY <1>1, <2>2, <2>3 DEF Embeds
  <2> QED
    BY <2>1, <2>4
<1>4. CASE Completed(rows[k])
  <2> DEFINE L == Len(s)
             t == Append(s, rows[k])
             g == [a \in 1 .. L + 1 |-> IF a = L + 1 THEN k ELSE f[a]]
  <2>1. Completed1(s, rows[k]) = t
    BY <1>4 DEF Completed, Completed1
  <2>2. /\ t \in Seq(Rows) /\ Len(t) = L + 1 /\ t[L + 1] = rows[k]
        /\ \A a \in 1 .. L : t[a] = s[a]
    BY <1>1, <1>2
  <2>3. \A a \in 1 .. L + 1 : a = L + 1 \/ a \in 1 .. L
    BY <1>2
  <2>4. /\ g[L + 1] = k /\ \A a \in 1 .. L : g[a] = f[a]
        /\ DOMAIN g = 1 .. L + 1 /\ g = [a \in 1 .. L + 1 |-> g[a]]
    BY <1>2
  <2> HIDE DEF t, g
  <2>5. \A a \in 1 .. L : f[a] \in 1 .. k - 1
    BY <1>1
  <2>6. ASSUME NEW a \in 1 .. L + 1 PROVE g[a] \in 1 .. k
    <3>1. CASE a = L + 1
      BY <1>2, <2>4, <3>1
    <3>2. CASE a \in 1 .. L
      <4>1. g[a] \in 1 .. k - 1
        BY <2>4, <2>5, <3>2
      <4> QED
        BY <1>2, <4>1
    <3> QED
      BY <2>3, <3>1, <3>2
  <2>7. ASSUME NEW a \in 1 .. L + 1, NEW b \in 1 .. L + 1, a < b PROVE g[a] < g[b]
    <3>1. a \in 1 .. L
      BY <1>2, <2>7
    <3>2. CASE b = L + 1
      <4>1. g[a] \in 1 .. k - 1 /\ g[b] = k
        BY <2>4, <2>5, <3>1, <3>2
      <4> QED
        BY <1>2, <4>1
    <3>3. CASE b \in 1 .. L
      BY <1>1, <2>4, <2>7, <3>1, <3>3
    <3> QED
      BY <2>3, <3>2, <3>3
  <2>8. \A a \in 1 .. L + 1 : t[a] = rows[g[a]] /\ Completed(rows[g[a]])
    BY <1>1, <1>4, <2>2, <2>3, <2>4
  <2>9. ASSUME NEW i \in 1 .. k, Completed(rows[i]) PROVE \E a \in 1 .. L + 1 : g[a] = i
    <3>1. CASE i = k
      BY <1>2, <2>4, <3>1
    <3>2. CASE i # k
      <4>1. i \in 1 .. k - 1
        BY <1>2, <3>2
      <4>2. PICK a \in 1 .. L : f[a] = i
        BY <1>1, <2>9, <4>1
      <4>3. a \in 1 .. L + 1
        BY <1>2
      <4> QED
        BY <2>4, <4>2, <4>3
    <3> QED
      BY <3>1, <3>2
  <2>10. g \in [1 .. L + 1 -> 1 .. k]
    BY <2>4, <2>6
  <2>11. Embeds(rows, k, t, g)
    BY <2>2, <2>7, <2>8, <2>9, <2>10 DEF Embeds
  <2> QED
    BY <2>1, <2>11
<1> QED
  BY <1>3, <1>4

\* The completed rows are rows of the history, all that are complete, in its order.
LEMMA CompletionsEmbed ==
    ASSUME NEW rows \in Seq(Rows)
    PROVE  \E f : Embeds(rows, Len(rows), Completions(rows), f)
<1> DEFINE n == Len(rows)
           C == Completions(rows)
<1>1. FoldsTo(Seq(Rows), CompletedStep, <<>>, rows, C)
  BY CompletionsFold
<1>0. n \in Nat /\ \A k \in 1 .. n : rows[k] \in Rows
  OBVIOUS
<1> HIDE DEF C
<1>2. PICK h \in [0 .. n -> Seq(Rows)] :
        /\ h[0] = <<>>
        /\ \A k \in 1 .. n : h[k] = CompletedStep[<<h[k - 1], rows[k]>>]
        /\ C = h[n]
  BY <1>1 DEF FoldsTo
<1> DEFINE P == {k \in 0 .. n : \E f : Embeds(rows, k, h[k], f)}
<1>3. 0 \in P
  <2>1. 0 \in 0 .. n /\ <<>> \in Seq(Rows) /\ Len(<<>>) = 0 /\ 1 .. 0 = {}
    BY <1>0
  <2> DEFINE e == [a \in {} |-> a]
  <2>2. e \in [1 .. 0 -> 1 .. 0]
    BY <2>1
  <2> HIDE DEF e
  <2>3. Embeds(rows, 0, <<>>, e)
    BY <2>1, <2>2 DEF Embeds
  <2> QED
    BY <1>2, <2>1, <2>3
<1>4. ASSUME NEW k \in 0 + 1 .. n, k - 1 \in P PROVE k \in P
  <2>1. k \in 1 .. n /\ k \in 0 .. n /\ k - 1 \in 0 .. n
    BY <1>0
  <2>2. PICK f : Embeds(rows, k - 1, h[k - 1], f)
    BY <1>4
  <2>3. \E g : Embeds(rows, k, Completed1(h[k - 1], rows[k]), g)
    BY <2>1, <2>2, EmbedsMore
  <2>4. h[k] = Completed1(h[k - 1], rows[k])
    <3>1. h[k - 1] \in Seq(Rows) /\ rows[k] \in Rows
      BY <1>0, <1>2, <2>1
    <3> QED
      BY <1>2, <2>1, <3>1 DEF CompletedStep
  <2> QED
    BY <2>1, <2>3, <2>4
<1> HIDE DEF P
<1>5. \A k \in 0 .. n : k \in P
  BY <1>0, <1>3, <1>4, UpTheRange
<1>6. n \in P
  BY <1>0, <1>5
<1> QED
  BY <1>2, <1>6 DEF P, C

OInv ==
    /\ ops \in Seq(Rows)
    /\ explored \in Nat
    /\ verdict \in Verdicts

\* The types of the oracle hold at first.
LEMMA OracleInitOK == Init => OInv
  BY DEF Init, OracleInit, OInv, Verdicts

\* The types of the oracle are inductive.
LEMMA OracleStepOK == SInv /\ OInv /\ [Next]_vars => OInv'
<1> SUFFICES ASSUME SInv, OInv, [Next]_vars PROVE OInv'
  OBVIOUS
<1>1. CASE UNCHANGED oracleVars
  BY <1>1 DEF OInv, oracleVars
<1>2. CASE StopAndCheck
  <2>1. /\ ops' = Completions(history) /\ explored' = explored
        /\ verdict' \in {"linearizable", "searching"}
    BY <1>2 DEF StopAndCheck, Start
  <2>2. history \in Seq(Rows)
    BY SInvTypes
  <2>3. PICK f : Embeds(history, Len(history), Completions(history), f)
    BY <2>2, CompletionsEmbed
  <2>4. Completions(history) \in Seq(Rows)
    BY <2>3 DEF Embeds
  <2> QED
    BY <2>1, <2>4 DEF OInv, Verdicts
<1>3. CASE Search
  <2>1. ops' = ops
    BY <1>3 DEF Search, Accept, Backtrack, Mismatch, DeadEnd, Place
  <2>2. explored' = explored \/ explored' = explored + 1
    BY <1>3 DEF Search, Accept, Backtrack, Mismatch, DeadEnd, Place
  <2>3. verdict' = verdict \/ verdict' \in {"linearizable", "illegal", "undetermined"}
    BY <1>3 DEF Search, Accept, Backtrack, Mismatch, DeadEnd, Place
  <2>4. explored' \in Nat
    BY <2>2 DEF OInv
  <2> QED
    BY <2>1, <2>3, <2>4 DEF OInv, Verdicts
<1> QED
  BY <1>1, <1>2, <1>3 DEF Next, vars

\* The oracle's store stays a store.
LEMMA RefStoreTyped ==
    ASSUME NEW store \in Stores, NEW o \in Operations
    PROVE  RefStore(store, o) \in Stores
<1>1. ASSUME RefTakes(store, o) PROVE o.value \in Stored
  <2>1. o.op # "get"
    BY <1>1 DEF RefTakes
  <2> QED
    BY <2>1 DEF Operations, Stored
<1> QED
  BY <1>1 DEF RefStore, Stores

\* The stores on the stack are stores.
LEMMA StackStores ==
    ASSUME OInv, IInv
    PROVE  \A j \in 1 .. Len(stack) : stack[j].store \in Stores
<1>1. PICK S : stack \in Seq(S)
  BY DEF IInv, StackOK
<1> DEFINE L == Len(stack)
<1>2. L \in Nat
  BY <1>1
<1>3. CASE L = 0
  BY <1>3
<1>4. CASE L # 0
  <2>1. 1 \in Nat /\ 1 .. L \subseteq Nat /\ stack # <<>> /\ 1 \in 1 .. L
    BY <1>1, <1>2, <1>4
  <2> DEFINE P == {j \in 1 .. L : stack[j].store \in Stores}
  <2>2. 1 \in P
    BY <2>1, EmptyTyped DEF IInv, StackOK
  <2>3. ASSUME NEW k \in 1 + 1 .. L, k - 1 \in P PROVE k \in P
    <3>1. k \in 1 .. L /\ k - 1 \in 1 .. k - 1 /\ (k - 1) + 1 = k
      BY <1>2
    <3>2. FrameOK(ops, stack, k)
      BY <3>1 DEF IInv, StackOK
    <3> DEFINE m == k - 1
               i == stack[k].path[m]
    <3>3. m \in 1 .. k - 1 /\ m + 1 = k
      BY <3>1
    <3>4. Follows(ops, stack[m], stack[m + 1], i)
      BY <3>2, <3>3 DEF FrameOK
    <3>5. m \in P
      BY <2>3
    <3> HIDE DEF m, i
    <3>6. stack[m].store \in Stores /\ stack[k].store = RefStore(stack[m].store, ops[i].o)
      BY <3>3, <3>4, <3>5 DEF Follows
    <3>7. i \in DOMAIN ops
      <4>1. i \in Minimal(ops, stack[m].pending) /\ m \in 1 .. L
        BY <3>4, <3>5 DEF Follows
      <4>2. stack[m].pending \subseteq DOMAIN ops
        BY <4>1 DEF IInv, StackOK, FrameOK
      <4> QED
        BY <4>1, <4>2 DEF Minimal
    <3>8. ops[i].o \in Operations
      <4>1. ops \in Seq(Rows)
        BY DEF OInv
      <4> QED
        BY <3>7, <4>1, RowFields
    <3> QED
      BY <3>1, <3>6, <3>8, RefStoreTyped
  <2> HIDE DEF P, L
  <2>4. \A j \in 1 .. L : j \in P
    BY <1>2, <2>1, <2>2, <2>3, UpTheRange
  <2> QED
    BY <2>4 DEF P, L
<1> QED
  BY <1>3, <1>4

\* The types of the oracle, its stack included.
LEMMA OracleTyped == OInv /\ IInv => OracleTypeOK
<1> SUFFICES ASSUME OInv, IInv PROVE OracleTypeOK
  OBVIOUS
<1> DEFINE F == [store : Stores, pending : SUBSET DOMAIN ops,
                 left : SUBSET DOMAIN ops, path : Seq(DOMAIN ops)]
<1>1. PICK S : stack \in Seq(S)
  BY DEF IInv, StackOK
<1>2. ASSUME NEW j \in 1 .. Len(stack) PROVE stack[j] \in F
  <2>1. FrameOK(ops, stack, j)
    BY DEF IInv, StackOK
  <2>2. stack[j].store \in Stores
    BY StackStores
  <2>3. stack[j].path \in Seq(DOMAIN ops) /\ IsFrame(stack[j])
    BY <2>1 DEF FrameOK
  <2>4. stack[j].pending \subseteq DOMAIN ops
    BY <2>1 DEF FrameOK
  <2>5. stack[j].left \subseteq DOMAIN ops
    BY <2>1, <2>4 DEF FrameOK, Minimal
  <2> QED
    BY <2>2, <2>3, <2>4, <2>5 DEF IsFrame
<1> HIDE DEF F
<1>3. stack \in Seq(F)
  <2>1. Len(stack) \in Nat /\ stack = [j \in 1 .. Len(stack) |-> stack[j]]
    BY <1>1
  <2>2. stack \in [1 .. Len(stack) -> F]
    BY <1>2, <2>1
  <2> QED
    BY <2>1, <2>2
<1> QED
  BY <1>3 DEF OracleTypeOK, OInv, IInv, Rows, F

\* Every variable of the service and of the oracle has its type.
THEOREM AuditTyped == Spec => []TypeOK
<1>1. SInv /\ OInv /\ IInv => TypeOK
  BY OracleTyped DEF TypeOK, SInv
<1> QED
  BY <1>1, ServiceInitOK, ServiceStepOK, OracleInitOK, OracleStepOK, InitOK, StepOK, PTL DEF Spec

-----------------------------------------------------------------------------
(***************************************************************************)
(* The verdict is exact: a linearization in the sense of Linearizable is   *)
(* what the invariant of the search calls a way to complete the whole      *)
(* history.                                                                *)
(***************************************************************************)
\* How Linearizable goes on when row i comes next.
Checks == [store : Stores, legal : BOOLEAN]

Checked(rows, acc, i) ==
    LET done == Execute(acc.store, rows[i].o)
    IN [store |-> done.store, legal |-> acc.legal /\ done.result = rows[i].observed]

CheckedStep(rows) ==
    [p \in Checks \X DOMAIN rows |-> Checked(rows, p[1], p[2])]

FirstCheck == [store |-> EmptyStore, legal |-> TRUE]

LegalOrder(rows, order) ==
    FoldLeft(LAMBDA acc, i :
               LET done == Execute(acc.store, rows[i].o)
               IN [store |-> done.store,
                   legal |-> acc.legal /\ done.result = rows[i].observed],
             [store |-> EmptyStore, legal |-> TRUE], order)

\* A step of Linearizable keeps its types.
LEMMA CheckedTyped ==
    ASSUME NEW rows \in Seq(Rows)
    PROVE  CheckedStep(rows) \in [Checks \X DOMAIN rows -> Checks]
<1>1. ASSUME NEW acc \in Checks, NEW i \in DOMAIN rows PROVE Checked(rows, acc, i) \in Checks
  <2>1. acc.store \in Stores /\ rows[i].o \in Operations
    BY RowFields DEF Checks
  <2>2. Execute(acc.store, rows[i].o).store \in Stores
    BY <2>1, ExecuteTyped
  <2> QED
    BY <2>2 DEF Checked, Checks
<1> QED
  BY <1>1 DEF CheckedStep

\* The check of an order is a fold.
LEMMA LegalOrderFolds ==
    ASSUME NEW rows \in Seq(Rows), NEW order \in Seq(DOMAIN rows)
    PROVE  FoldsTo(Checks, CheckedStep(rows), FirstCheck, order, LegalOrder(rows, order))
<1> DEFINE D == DOMAIN order
           X == Checks
           step == CheckedStep(rows)
           Rec(g) == g = [T \in SUBSET D |->
                            IF T = {} THEN FirstCheck
                            ELSE Checked(rows, g[T \ {Max(T)}], order[Max(T)])]
<1>1. LegalOrder(rows, order) = (CHOOSE g : Rec(g))[D]
  BY DEF LegalOrder, FoldLeft, MapThenFoldSet, Checked, FirstCheck
<1>0. FirstCheck \in X /\ step \in [X \X DOMAIN rows -> X]
  BY EmptyTyped, CheckedTyped DEF FirstCheck, Checks
<1> HIDE DEF X
<1>00. \A a \in X, i \in DOMAIN rows : step[<<a, i>>] = Checked(rows, a, i)
  BY DEF CheckedStep, X
<1> HIDE DEF step
<1>2. PICK g : Folds1(g, X, step, FirstCheck, order, Len(order))
  BY <1>0, FoldExists
<1>3. D = 1 .. Len(order) /\ Len(order) \in Nat /\ \A i \in D : order[i] \in DOMAIN rows
  OBVIOUS
<1> HIDE DEF D
<1>4. \A T \in SUBSET D : T # {} => Max(T) \in D /\ T \ {Max(T)} \in SUBSET D
  BY <1>3, MaxIn
<1>5. ASSUME NEW a \in X, NEW T \in SUBSET D, T # {}
      PROVE  Checked(rows, a, order[Max(T)]) = step[<<a, order[Max(T)]>>]
  BY <1>00, <1>3, <1>4, <1>5
<1>6. Rec(g)
  <2>1. g \in [SUBSET D -> X]
    BY <1>2, <1>3 DEF Folds1
  <2>2. ASSUME NEW T \in SUBSET D
        PROVE  g[T] = IF T = {} THEN FirstCheck
                      ELSE Checked(rows, g[T \ {Max(T)}], order[Max(T)])
    BY <1>2, <1>3, <1>4, <1>5, <2>1, <2>2 DEF Folds1
  <2> QED
    BY <2>1, <2>2
<1>7. ASSUME NEW f, Rec(f) PROVE FoldsTo(X, step, FirstCheck, order, f[D])
  <2>1. FoldsIn(f, X, step, FirstCheck, order)
    <3>1. \A T \in SUBSET D :
            f[T] = IF T = {} THEN FirstCheck
                   ELSE Checked(rows, f[T \ {Max(T)}], order[Max(T)])
      BY <1>7
    <3> QED
      BY <1>3, <1>5, <3>1 DEF FoldsIn
  <2> QED
    BY <1>0, <1>3, <2>1, FoldsInFolds
<1>8. Rec(CHOOSE h : Rec(h))
  <2> HIDE DEF Rec
  <2> QED
    BY <1>6
<1> QED
  BY <1>1, <1>7, <1>8 DEF X, step

\* h is what the check of order goes through.
ChecksAlong(rows, order, h) ==
    /\ h[0] = FirstCheck
    /\ \A k \in 0 .. Len(order) : h[k] \in Checks
    /\ \A k \in 1 .. Len(order) :
         /\ order[k] \in DOMAIN rows
         /\ h[k].store = Execute(h[k - 1].store, rows[order[k]].o).store
         /\ h[k].legal <=> /\ h[k - 1].legal
                           /\ Execute(h[k - 1].store, rows[order[k]].o).result
                                = rows[order[k]].observed

\* The check of an order, row by row.
LEMMA OrderChecked ==
    ASSUME NEW rows \in Seq(Rows), NEW order \in Seq(DOMAIN rows)
    PROVE  \E h : /\ ChecksAlong(rows, order, h)
                  /\ LegalOrder(rows, order) = h[Len(order)]
<1> DEFINE r == LegalOrder(rows, order)
<1>1. FoldsTo(Checks, CheckedStep(rows), FirstCheck, order, r)
  BY LegalOrderFolds
<1> HIDE DEF r
<1>2. PICK h \in [0 .. Len(order) -> Checks] :
        /\ h[0] = FirstCheck
        /\ \A k \in 1 .. Len(order) : h[k] = CheckedStep(rows)[<<h[k - 1], order[k]>>]
        /\ r = h[Len(order)]
  BY <1>1 DEF FoldsTo
<1>3. ASSUME NEW k \in 1 .. Len(order)
      PROVE  /\ order[k] \in DOMAIN rows
             /\ h[k].store = Execute(h[k - 1].store, rows[order[k]].o).store
             /\ h[k].legal = (/\ h[k - 1].legal
                              /\ Execute(h[k - 1].store, rows[order[k]].o).result
                                   = rows[order[k]].observed)
  <2> DEFINE a == h[k - 1]
             i == order[k]
  <2>1. k - 1 \in 0 .. Len(order) /\ k \in DOMAIN order
    OBVIOUS
  <2>2. i \in DOMAIN rows
    BY <2>1
  <2>3. a \in Checks
    BY <1>2, <2>1
  <2>4. h[k] = CheckedStep(rows)[<<a, i>>]
    BY <1>2
  <2> HIDE DEF a, i
  <2>5. h[k] = Checked(rows, a, i)
    BY <2>2, <2>3, <2>4 DEF CheckedStep
  <2>6. h[k].store = Execute(a.store, rows[i].o).store
    BY <2>5 DEF Checked
  <2>7. h[k].legal = (a.legal /\ Execute(a.store, rows[i].o).result = rows[i].observed)
    BY <2>5 DEF Checked
  <2> QED
    BY <2>2, <2>6, <2>7 DEF a, i
<1>4. ChecksAlong(rows, order, h)
  BY <1>2, <1>3 DEF ChecksAlong
<1> QED
  BY <1>2, <1>4 DEF r

\* The oracle's store is the state machine's.
LEMMA SameStores ==
    ASSUME NEW store, NEW o \in Operations
    PROVE  /\ RefStore(store, o) = Execute(store, o).store
           /\ RefResult(store, o) = Execute(store, o).result
<1>1. RefTakes(store, o) <=> Takes(store, o)
  BY DEF RefTakes, Takes
<1>2. o.op = "get" => ~Takes(store, o)
  BY DEF Takes
<1> QED
  BY <1>1, <1>2 DEF RefStore, RefResult, Execute

\* An order of all of rows.
LEMMA OrdersAre ==
    ASSUME NEW rows \in Seq(Rows), NEW order
    PROVE  order \in SetToSeqs(DOMAIN rows) <=>
             /\ order \in Seq(DOMAIN rows)
             /\ DOMAIN rows = {order[a] : a \in DOMAIN order}
             /\ \A a, b \in DOMAIN order : a < b => order[a] # order[b]
<1> DEFINE n == Len(rows)
<1>1. n \in Nat /\ DOMAIN rows = 1 .. n
  OBVIOUS
<1>2. IsFiniteSet(1 .. n) /\ Cardinality(1 .. n) = n
  BY <1>1, FS_Interval
<1>3. order \in SetToSeqs(DOMAIN rows) <=>
        /\ order \in [1 .. n -> 1 .. n]
        /\ \A i, j \in 1 .. n : i # j => order[i] # order[j]
  BY <1>1, <1>2 DEF SetToSeqs
<1> HIDE DEF n
<1>4. ASSUME order \in [1 .. n -> 1 .. n],
             \A i, j \in 1 .. n : i # j => order[i] # order[j]
      PROVE  /\ order \in Seq(1 .. n) /\ DOMAIN order = 1 .. n
             /\ 1 .. n = {order[a] : a \in 1 .. n}
  <2>1. order \in Injection(1 .. n, 1 .. n)
    BY <1>4 DEF Injection, IsInjective
  <2>2. order \in Surjection(1 .. n, 1 .. n)
    BY <1>2, <2>1, FS_Injection
  <2> QED
    BY <1>1, <1>4, <2>2 DEF Surjection
<1>5. ASSUME order \in Seq(1 .. n), 1 .. n = {order[a] : a \in DOMAIN order},
             \A a, b \in DOMAIN order : a < b => order[a] # order[b]
      PROVE  /\ order \in [1 .. n -> 1 .. n]
             /\ \A i, j \in 1 .. n : i # j => order[i] # order[j]
  <2> DEFINE m == Len(order)
  <2>1. m \in Nat /\ DOMAIN order = 1 .. m /\ order \in [1 .. m -> 1 .. n]
    BY <1>5
  <2> HIDE DEF m
  <2>2. ASSUME NEW a \in 1 .. m, NEW b \in 1 .. m, order[a] = order[b] PROVE a = b
    <3>1. a \in Nat /\ b \in Nat /\ ~(a < b) /\ ~(b < a)
      BY <1>5, <2>1, <2>2
    <3> QED
      BY <3>1
  <2>3. order \in Injection(1 .. m, 1 .. n)
    BY <2>1, <2>2 DEF Injection, IsInjective
  <2>4. order \in Surjection(1 .. m, 1 .. n)
    BY <1>5, <2>1 DEF Surjection
  <2>5. Cardinality(1 .. m) = Cardinality(1 .. n)
    BY <1>2, <2>3, <2>4, FS_Injection
  <2>6. Cardinality(1 .. m) = m
    BY <2>1, FS_Interval
  <2>7. m = n
    BY <1>2, <2>5, <2>6
  <2> QED
    BY <2>1, <2>2, <2>7
<1>6. order \in [1 .. n -> 1 .. n] /\ (\A i, j \in 1 .. n : i # j => order[i] # order[j])
        => \A a, b \in 1 .. n : a < b => order[a] # order[b]
  BY <1>1
<1> QED
  BY <1>1, <1>3, <1>4, <1>5, <1>6

\* A check ends legal iff every answer was.
LEMMA LegalMeans ==
    ASSUME NEW rows \in Seq(Rows), NEW order \in Seq(DOMAIN rows), NEW h,
           ChecksAlong(rows, order, h)
    PROVE  h[Len(order)].legal <=>
             \A k \in 1 .. Len(order) :
               Execute(h[k - 1].store, rows[order[k]].o).result = rows[order[k]].observed
<1> DEFINE n == Len(order)
           Fits(k) == Execute(h[k - 1].store, rows[order[k]].o).result = rows[order[k]].observed
           P == {k \in 0 .. n : h[k].legal <=> \A j \in 1 .. k : Fits(j)}
<1>1. n \in Nat
  OBVIOUS
<1>2. h[0].legal /\ \A k \in 1 .. n : h[k].legal <=> h[k - 1].legal /\ Fits(k)
  BY DEF ChecksAlong, FirstCheck
<1> HIDE DEF n, Fits
<1>3. 0 \in P
  BY <1>1, <1>2
<1>4. ASSUME NEW k \in 0 + 1 .. n, k - 1 \in P PROVE k \in P
  <2>1. k \in 1 .. n /\ k \in 0 .. n
    BY <1>1
  <2>2. h[k - 1].legal <=> \A j \in 1 .. k - 1 : Fits(j)
    BY <1>4
  <2>3. (\A j \in 1 .. k : Fits(j)) <=> (\A j \in 1 .. k - 1 : Fits(j)) /\ Fits(k)
    <3>1. \A j \in 1 .. k : j = k \/ j \in 1 .. k - 1
      BY <2>1
    <3>2. k \in 1 .. k /\ \A j \in 1 .. k - 1 : j \in 1 .. k
      BY <2>1
    <3> QED
      BY <3>1, <3>2
  <2>4. h[k].legal <=> h[k - 1].legal /\ Fits(k)
    BY <1>2, <2>1
  <2>5. h[k].legal <=> \A j \in 1 .. k : Fits(j)
    BY <2>2, <2>3, <2>4
  <2> QED
    BY <2>1, <2>5
<1> HIDE DEF P
<1>5. \A k \in 0 .. n : k \in P
  BY <1>1, <1>3, <1>4, UpTheRange
<1>6. n \in P
  BY <1>1, <1>5
<1> QED
  BY <1>6 DEF P, n, Fits

\* Of two rows, the one may not come after the other iff it would have to come
\* before.
LEMMA PrecedesIs ==
    ASSUME NEW rows \in Seq(Rows), NEW i \in DOMAIN rows, NEW j \in DOMAIN rows
    PROVE  ~Precedes(rows[j], rows[i]) <=> rows[i].invoked <= rows[j].returned
<1>1. rows[i].invoked \in Nat /\ rows[j].returned \in Nat
  BY RowFields
<1> QED
  BY <1>1 DEF Precedes

\* A linearization is a way to complete the whole history.
LEMMA LegalIsCompletable ==
    ASSUME NEW rows \in Seq(Rows), Linearizable(rows)
    PROVE  Completable(rows, EmptyStore, DOMAIN rows)
<1>1. PICK order \in SetToSeqs(DOMAIN rows) :
        /\ \A a, b \in DOMAIN order : a < b => ~Precedes(rows[order[b]], rows[order[a]])
        /\ LegalOrder(rows, order).legal
  BY DEF Linearizable, LegalOrder
<1>2. /\ order \in Seq(DOMAIN rows)
      /\ DOMAIN rows = {order[a] : a \in DOMAIN order}
      /\ \A a, b \in DOMAIN order : a < b => order[a] # order[b]
  BY OrdersAre
<1> DEFINE n == Len(order)
<1>3. n \in Nat /\ DOMAIN order = 1 .. n /\ \A a \in 1 .. n : order[a] \in DOMAIN rows
  BY <1>2
<1>4. PICK h : ChecksAlong(rows, order, h) /\ LegalOrder(rows, order) = h[n]
  BY <1>2, OrderChecked
<1>5. \A k \in 1 .. n :
        Execute(h[k - 1].store, rows[order[k]].o).result = rows[order[k]].observed
  BY <1>1, <1>2, <1>4, LegalMeans
<1> DEFINE run == [a \in 1 .. n + 1 |-> h[a - 1].store]
<1>6. \A a \in 1 .. n : run[a] = h[a - 1].store /\ run[a + 1] = h[a].store
  BY <1>3
<1>7. run[1] = EmptyStore
  BY <1>3, <1>4 DEF ChecksAlong, FirstCheck
<1> HIDE DEF run, n
<1>8. ASSUME NEW a \in 1 .. n
      PROVE  /\ RefResult(run[a], rows[order[a]].o) = rows[order[a]].observed
             /\ run[a + 1] = RefStore(run[a], rows[order[a]].o)
  <2>1. rows[order[a]].o \in Operations
    BY <1>3, RowFields
  <2>2. h[a].store = Execute(h[a - 1].store, rows[order[a]].o).store
    BY <1>4 DEF ChecksAlong, n
  <2> QED
    BY <1>5, <1>6, <2>1, <2>2, SameStores
<1>9. ASSUME NEW a \in 1 .. n, NEW b \in 1 .. n, a < b
      PROVE  order[a] # order[b] /\ rows[order[a]].invoked <= rows[order[b]].returned
  <2>1. ~Precedes(rows[order[b]], rows[order[a]])
    BY <1>1, <1>3, <1>9
  <2> QED
    BY <1>2, <1>3, <1>9, <2>1, PrecedesIs
<1>10. Completes(rows, EmptyStore, DOMAIN rows, order, run)
  BY <1>2, <1>3, <1>7, <1>8, <1>9 DEF Completes
<1> QED
  BY <1>10 DEF Completable

\* A way to complete the whole history is a linearization.
LEMMA CompletableIsLegal ==
    ASSUME NEW rows \in Seq(Rows), Completable(rows, EmptyStore, DOMAIN rows)
    PROVE  Linearizable(rows)
<1>1. PICK order, run : Completes(rows, EmptyStore, DOMAIN rows, order, run)
  BY DEF Completable
<1> DEFINE n == Len(order)
<1>2. /\ order \in Seq(DOMAIN rows)
      /\ DOMAIN rows = {order[a] : a \in DOMAIN order}
      /\ \A a, b \in DOMAIN order :
           a < b => order[a] # order[b] /\ rows[order[a]].invoked <= rows[order[b]].returned
      /\ run[1] = EmptyStore
      /\ \A a \in DOMAIN order :
           /\ RefResult(run[a], rows[order[a]].o) = rows[order[a]].observed
           /\ run[a + 1] = RefStore(run[a], rows[order[a]].o)
  BY <1>1 DEF Completes
<1>3. n \in Nat /\ DOMAIN order = 1 .. n /\ \A a \in 1 .. n : order[a] \in DOMAIN rows
  BY <1>2
<1>4. PICK h : ChecksAlong(rows, order, h) /\ LegalOrder(rows, order) = h[n]
  BY <1>2, OrderChecked
<1> DEFINE P == {k \in 0 .. n : h[k].store = run[k + 1]}
<1> HIDE DEF n
<1>5. 0 \in P
  BY <1>2, <1>3, <1>4 DEF ChecksAlong, FirstCheck
<1>6. \A k \in 1 .. n :
        /\ rows[order[k]].o \in Operations
        /\ h[k].store = Execute(h[k - 1].store, rows[order[k]].o).store
  BY <1>3, <1>4, RowFields DEF ChecksAlong, n
<1>7. ASSUME NEW k \in 0 + 1 .. n, k - 1 \in P PROVE k \in P
  <2>1. k \in 1 .. n /\ k \in 0 .. n /\ (k - 1) + 1 = k
    BY <1>3
  <2>2. h[k - 1].store = run[k]
    BY <1>7, <2>1
  <2>3. run[k + 1] = RefStore(run[k], rows[order[k]].o)
    BY <1>2, <1>3, <2>1
  <2>4. h[k].store = run[k + 1]
    BY <1>6, <2>1, <2>2, <2>3, SameStores
  <2> QED
    BY <2>1, <2>4
<1> HIDE DEF P
<1>8. \A k \in 0 .. n : k \in P
  BY <1>3, <1>5, <1>7, UpTheRange
<1>9. ASSUME NEW k \in 1 .. n
      PROVE  Execute(h[k - 1].store, rows[order[k]].o).result = rows[order[k]].observed
  <2>1. k - 1 \in 0 .. n /\ (k - 1) + 1 = k
    BY <1>3
  <2>2. h[k - 1].store = run[k]
    BY <1>8, <2>1 DEF P
  <2> QED
    BY <1>2, <1>3, <1>6, <2>2, SameStores
<1>10. h[n].legal
  BY <1>2, <1>4, <1>9, LegalMeans DEF n
<1>11. LegalOrder(rows, order).legal
  BY <1>4, <1>10
<1>12. ASSUME NEW a \in DOMAIN order, NEW b \in DOMAIN order, a < b
       PROVE  ~Precedes(rows[order[b]], rows[order[a]])
  BY <1>2, <1>3, <1>12, PrecedesIs
<1>13. order \in SetToSeqs(DOMAIN rows)
  BY <1>2, OrdersAre
<1> QED
  BY <1>11, <1>12, <1>13 DEF Linearizable, LegalOrder

\* Nothing to order is ordered.
LEMMA NothingLeft == Completable(<<>>, EmptyStore, DOMAIN <<>>)
<1> DEFINE rows == <<>>
           run == [a \in 1 .. 1 |-> EmptyStore]
<1>1. DOMAIN rows = {} /\ <<>> \in Seq({})
  OBVIOUS
<1>2. run[1] = EmptyStore
  OBVIOUS
<1> HIDE DEF rows, run
<1>3. Completes(rows, EmptyStore, DOMAIN rows, <<>>, run)
  BY <1>1, <1>2 DEF Completes
<1>4. Completable(rows, EmptyStore, DOMAIN rows)
  BY <1>3 DEF Completable
<1> QED
  BY <1>4 DEF rows

\* The verdict is exact by the invariants of the search.
LEMMA ExactVerdict == IInv /\ CInv /\ OInv => VerdictExact
<1> SUFFICES ASSUME IInv, CInv, OInv PROVE VerdictExact
  OBVIOUS
<1>1. ops \in Seq(Rows)
  BY DEF OInv
<1>2. ASSUME verdict = "linearizable" PROVE Linearizable(ops)
  <2>1. CASE ops = <<>>
    BY <1>1, <2>1, NothingLeft, CompletableIsLegal
  <2>2. CASE ops # <<>>
    <3>1. Witness(Top.path, [j \in DOMAIN stack |-> stack[j].store])
      BY <1>2, <2>2, AcceptedIsLegal DEF WitnessLegal
    <3>2. stack # <<>> /\ StackOK(ops, stack)
      BY <1>2, <2>2 DEF IInv
    <3>3. PICK S : stack \in Seq(S)
      BY <3>2 DEF StackOK
    <3>4. Len(stack) \in 1 .. Len(stack)
      BY <3>2, <3>3
    <3>5. Top.path \in Seq(DOMAIN ops)
      BY <3>2, <3>4 DEF StackOK, FrameOK, Top
    <3> DEFINE run == [j \in DOMAIN stack |-> stack[j].store]
    <3>6. Witness(Top.path, run)
      BY <3>1
    <3> HIDE DEF run
    <3>7. Completes(ops, EmptyStore, DOMAIN ops, Top.path, run)
      BY <3>5, <3>6 DEF Witness, Completes
    <3>8. Completable(ops, EmptyStore, DOMAIN ops)
      BY <3>7 DEF Completable
    <3> QED
      BY <1>1, <3>8, CompletableIsLegal
  <2> QED
    BY <2>1, <2>2
<1>3. ASSUME verdict = "illegal" PROVE ~Linearizable(ops)
  BY <1>1, <1>3, LegalIsCompletable DEF CInv
<1> QED
  BY <1>2, <1>3 DEF VerdictExact

\* What check says of a history is so: "linearizable" and "illegal" are said of
\* exactly the histories that have a linearization by the state machine, or none,
\* whatever dead ends it remembered (linearizability.check).
THEOREM VerdictsExact == Spec => []VerdictExact
  BY ExactVerdict, InitOK, StepOK, InitC, StepC, ServiceInitOK, ServiceStepOK, OracleInitOK,
     OracleStepOK, PTL DEF Spec

-----------------------------------------------------------------------------
(***************************************************************************)
(* Runs are linearizable.  Every operation has a point where it takes      *)
(* effect: the first entry of its request in the log, or how far the       *)
(* server was that served the read.  Operations with such points can be    *)
(* ordered.                                                                *)
(***************************************************************************)
\* An operation that may come next, and fits, can be placed before the others.
LEMMA PlaceFirst ==
    ASSUME NEW rows, NEW store, NEW pending, NEW i \in pending,
           \A j \in pending \ {i} : rows[i].invoked <= rows[j].returned,
           RefResult(store, rows[i].o) = rows[i].observed,
           Completable(rows, RefStore(store, rows[i].o), pending \ {i})
    PROVE  Completable(rows, store, pending)
<1>1. PICK rest, onward :
        Completes(rows, RefStore(store, rows[i].o), pending \ {i}, rest, onward)
  BY DEF Completable
<1> DEFINE L == Len(rest)
           order == [a \in 1 .. L + 1 |-> IF a = 1 THEN i ELSE rest[a - 1]]
           run == [a \in 1 .. L + 2 |-> IF a = 1 THEN store ELSE onward[a - 1]]
<1>2. /\ rest \in Seq(pending \ {i}) /\ pending \ {i} = {rest[a] : a \in DOMAIN rest}
      /\ \A a, b \in DOMAIN rest :
           a < b => rest[a] # rest[b] /\ rows[rest[a]].invoked <= rows[rest[b]].returned
      /\ onward[1] = RefStore(store, rows[i].o)
      /\ \A a \in DOMAIN rest :
           /\ RefResult(onward[a], rows[rest[a]].o) = rows[rest[a]].observed
           /\ onward[a + 1] = RefStore(onward[a], rows[rest[a]].o)
  BY <1>1 DEF Completes
<1>3. L \in Nat /\ DOMAIN rest = 1 .. L /\ \A a \in 1 .. L : rest[a] \in pending \ {i}
  BY <1>2
<1>4. /\ order[1] = i /\ \A a \in 2 .. L + 1 : order[a] = rest[a - 1] /\ a - 1 \in 1 .. L
      /\ DOMAIN order = 1 .. L + 1
      /\ \A a \in 1 .. L + 1 : a = 1 \/ a \in 2 .. L + 1
  BY <1>3
<1>5. run[1] = store /\ \A a \in 2 .. L + 2 : run[a] = onward[a - 1]
  BY <1>3
<1>6. order \in Seq(pending) /\ \A a \in 1 .. L + 1 : order[a] \in pending
  <2>1. \A a \in 1 .. L + 1 : order[a] \in pending
    BY <1>3, <1>4
  <2>2. order \in [1 .. L + 1 -> pending] /\ L + 1 \in Nat
    BY <1>3, <2>1
  <2> QED
    BY <2>1, <2>2
<1> HIDE DEF order, run, L
<1>7. pending = {order[a] : a \in DOMAIN order}
  <2>1. ASSUME NEW j \in pending PROVE \E a \in 1 .. L + 1 : j = order[a]
    <3>1. CASE j = i
      BY <1>3, <1>4, <3>1
    <3>2. CASE j # i
      <4>1. PICK a \in 1 .. L : j = rest[a]
        BY <1>2, <1>3, <3>2
      <4>2. a + 1 \in 2 .. L + 1 /\ (a + 1) - 1 = a /\ a + 1 \in 1 .. L + 1
        BY <1>3
      <4> QED
        BY <1>4, <4>1, <4>2
    <3> QED
      BY <3>1, <3>2
  <2> QED
    BY <1>4, <1>6, <2>1
<1>8. ASSUME NEW a \in 1 .. L + 1, NEW b \in 1 .. L + 1, a < b
      PROVE  order[a] # order[b] /\ rows[order[a]].invoked <= rows[order[b]].returned
  <2>1. b \in 2 .. L + 1
    BY <1>3, <1>8
  <2>2. CASE a = 1
    <3>1. order[b] \in pending \ {i}
      BY <1>3, <1>4, <2>1
    <3> QED
      BY <1>4, <2>2, <3>1
  <2>3. CASE a \in 2 .. L + 1
    <3> DEFINE c == a - 1
               d == b - 1
    <3>1. c < d /\ c \in 1 .. L /\ d \in 1 .. L
      BY <1>3, <1>8, <2>1, <2>3
    <3>2. order[a] = rest[c] /\ order[b] = rest[d]
      BY <1>4, <2>1, <2>3
    <3> HIDE DEF c, d
    <3> QED
      BY <1>2, <1>3, <3>1, <3>2
  <2> QED
    BY <1>4, <2>2, <2>3
<1>9. ASSUME NEW a \in 1 .. L + 1
      PROVE  /\ RefResult(run[a], rows[order[a]].o) = rows[order[a]].observed
             /\ run[a + 1] = RefStore(run[a], rows[order[a]].o)
  <2>1. CASE a = 1
    <3>1. 2 \in 2 .. L + 2 /\ a + 1 = 2 /\ 2 - 1 = 1
      BY <1>3, <2>1
    <3> QED
      BY <1>2, <1>4, <1>5, <2>1, <3>1
  <2>2. CASE a \in 2 .. L + 1
    <3> DEFINE c == a - 1
    <3>1. c \in 1 .. L /\ a \in 2 .. L + 2 /\ a + 1 \in 2 .. L + 2 /\ (a + 1) - 1 = c + 1
      BY <1>3, <2>2
    <3>2. run[a] = onward[c] /\ run[a + 1] = onward[c + 1] /\ order[a] = rest[c]
      BY <1>4, <1>5, <2>2, <3>1
    <3> HIDE DEF c
    <3> QED
      BY <1>2, <1>3, <3>1, <3>2
  <2> QED
    BY <1>4, <2>1, <2>2
<1>10. Completes(rows, store, pending, order, run)
  BY <1>4, <1>5, <1>6, <1>7, <1>8, <1>9 DEF Completes
<1> QED
  BY <1>10 DEF Completable

\* Induction from n down to a, for a set.
LEMMA DownTheRange ==
    ASSUME NEW a \in Nat, NEW n \in Nat, NEW P, n \in P,
           \A k \in a + 1 .. n : k \in P => k - 1 \in P
    PROVE  \A k \in a .. n : k \in P
<1> DEFINE Q == {d \in 0 .. n - a : n - d \in P}
<1>1. CASE a <= n
  <2>1. n - a \in Nat /\ 0 \in Q
    BY <1>1
  <2>2. ASSUME NEW d \in 0 + 1 .. n - a, d - 1 \in Q PROVE d \in Q
    <3>1. n - (d - 1) \in P
      BY <2>2
    <3>2. n - (d - 1) \in a + 1 .. n /\ (n - (d - 1)) - 1 = n - d /\ d \in 0 .. n - a
      BY <1>1, <2>1
    <3>3. n - d \in P
      BY <3>1, <3>2
    <3> QED
      BY <3>2, <3>3
  <2> DEFINE m == n - a
  <2>3. m \in Nat /\ \A d \in 0 + 1 .. m : d - 1 \in Q => d \in Q
    BY <2>1, <2>2
  <2> HIDE DEF Q, m
  <2>4. \A d \in 0 .. m : d \in Q
    BY <2>1, <2>3, UpTheRange
  <2>5. ASSUME NEW k \in a .. n PROVE k \in P
    <3>1. n - k \in 0 .. m /\ n - (n - k) = k
      BY DEF m
    <3>2. n - k \in Q
      BY <2>4, <3>1
    <3> QED
      BY <3>1, <3>2 DEF Q
  <2> QED
    BY <2>5
<1>2. CASE ~(a <= n)
  BY <1>2
<1> QED
  BY <1>1, <1>2

\* Every row has a point q among the states S[0] .. S[N] of a store: those in W
\* are what leads from the state before their point to it, the others leave the
\* state of their point as it is.  What returned before another row was invoked
\* has an earlier point, or the same one and is not overtaken there.
Pointed(rows, N, S, q, W) ==
    /\ W \subseteq DOMAIN rows
    /\ \A j \in DOMAIN rows : q[j] \in 0 .. N
    /\ \A j \in W : /\ q[j] >= 1
                    /\ RefResult(S[q[j] - 1], rows[j].o) = rows[j].observed
                    /\ RefStore(S[q[j] - 1], rows[j].o) = S[q[j]]
    /\ \A j \in DOMAIN rows \ W : /\ RefResult(S[q[j]], rows[j].o) = rows[j].observed
                                  /\ RefStore(S[q[j]], rows[j].o) = S[q[j]]
    /\ \A i, j \in W : q[i] = q[j] => i = j
    /\ \A k \in 1 .. N : S[k] = S[k - 1] \/ \E w \in W : q[w] = k
    /\ \A i, j \in DOMAIN rows :
         rows[i].returned < rows[j].invoked
           => i < j /\ q[i] <= q[j] /\ (q[i] = q[j] => j \notin W)

\* The rows whose point is later than k.
After(rows, q, k) == {j \in DOMAIN rows : q[j] > k}

\* The rows that leave the state at k as it is, from the m-th on.
At(rows, q, W, k, m) == {j \in DOMAIN rows \ W : q[j] = k /\ j >= m}

\* What did not return before another was invoked may come after it.
LEMMA NotBefore ==
    ASSUME NEW rows \in Seq(Rows), NEW i \in DOMAIN rows, NEW j \in DOMAIN rows,
           ~(rows[j].returned < rows[i].invoked)
    PROVE  rows[i].invoked <= rows[j].returned
<1>1. rows[i].invoked \in Nat /\ rows[j].returned \in Nat
  BY RowFields
<1> QED
  BY <1>1

\* What stays at a point can be placed there.
LEMMA PlaceAt ==
    ASSUME NEW rows \in Seq(Rows), NEW N \in Nat, NEW S, NEW q, NEW W,
           Pointed(rows, N, S, q, W), NEW k \in 0 .. N,
           Completable(rows, S[k], After(rows, q, k))
    PROVE  Completable(rows, S[k], After(rows, q, k) \cup At(rows, q, W, k, 1))
<1> DEFINE n == Len(rows)
           Set(m) == After(rows, q, k) \cup At(rows, q, W, k, m)
           P == {m \in 1 .. n + 1 : Completable(rows, S[k], Set(m))}
<1>1. n \in Nat /\ DOMAIN rows = 1 .. n
  OBVIOUS
<1>2. n + 1 \in P
  <2>1. At(rows, q, W, k, n + 1) = {}
    BY <1>1 DEF At
  <2>2. Set(n + 1) = After(rows, q, k)
    BY <2>1
  <2>3. n + 1 \in 1 .. n + 1
    BY <1>1
  <2>4. Completable(rows, S[k], Set(n + 1))
    BY <2>2
  <2> HIDE DEF Set
  <2> QED
    BY <2>3, <2>4
<1>3. ASSUME NEW m \in 1 + 1 .. n + 1, m \in P PROVE m - 1 \in P
  <2> DEFINE i == m - 1
  <2>1. i \in 1 .. n /\ i \in 1 .. n + 1 /\ i \in Nat /\ m = i + 1
    BY <1>1
  <2>2. Completable(rows, S[k], Set(i + 1))
    BY <1>3, <2>1
  <2> HIDE DEF i
  <2>3. CASE i \notin W /\ q[i] = k
    <3>1. Set(i) = Set(i + 1) \cup {i} /\ i \notin Set(i + 1) /\ i \in Set(i)
      BY <1>1, <2>1, <2>3 DEF At, After
    <3>2. ASSUME NEW j \in Set(i) \ {i} PROVE rows[i].invoked <= rows[j].returned
      <4>1. j \in Set(i + 1) /\ j \in DOMAIN rows
        BY <3>1, <3>2 DEF At, After
      <4>2. q[j] > k \/ (q[j] = k /\ j >= i + 1)
        BY <4>1 DEF At, After
      <4>3. q[j] \in Nat /\ j \in Nat /\ k \in Nat
        BY <1>1, <4>1 DEF Pointed
      <4>4. ~(rows[j].returned < rows[i].invoked)
        <5>1. SUFFICES ASSUME rows[j].returned < rows[i].invoked PROVE FALSE
          OBVIOUS
        <5>2. j < i /\ q[j] <= q[i]
          BY <1>1, <2>1, <4>1, <5>1 DEF Pointed
        <5> QED
          BY <2>1, <2>3, <4>2, <4>3, <5>2
      <4> QED
        BY <1>1, <2>1, <4>1, <4>4, NotBefore
    <3>3. /\ RefResult(S[k], rows[i].o) = rows[i].observed
          /\ RefStore(S[k], rows[i].o) = S[k]
      BY <1>1, <2>1, <2>3 DEF Pointed
    <3>4. Set(i) \ {i} = Set(i + 1)
      BY <3>1
    <3> DEFINE pending == Set(i)
    <3>5. /\ i \in pending /\ Completable(rows, RefStore(S[k], rows[i].o), pending \ {i})
          /\ \A j \in pending \ {i} : rows[i].invoked <= rows[j].returned
      BY <2>2, <3>1, <3>2, <3>3, <3>4
    <3> HIDE DEF pending
    <3>6. Completable(rows, S[k], pending)
      BY <3>3, <3>5, PlaceFirst
    <3> QED
      BY <2>1, <3>6 DEF pending, i
  <2>4. CASE ~(i \notin W /\ q[i] = k)
    <3>1. Set(i) = Set(i + 1)
      BY <1>1, <2>1, <2>4 DEF At
    <3> QED
      BY <2>1, <2>2, <3>1 DEF i
  <2> QED
    BY <2>3, <2>4
<1> HIDE DEF P
<1> DEFINE top == n + 1
<1>4. top \in Nat /\ top \in P /\ 1 \in 1 .. top
      /\ \A m \in 1 + 1 .. top : m \in P => m - 1 \in P
  BY <1>1, <1>2, <1>3
<1> HIDE DEF top
<1>5. 1 \in P
  BY <1>4, DownTheRange
<1> QED
  BY <1>5 DEF P

\* Rows with such points can be ordered.
LEMMA PointsComplete ==
    ASSUME NEW rows \in Seq(Rows), NEW N \in Nat, NEW S, NEW q, NEW W,
           Pointed(rows, N, S, q, W)
    PROVE  Completable(rows, S[0], DOMAIN rows)
<1> DEFINE P == {k \in 0 .. N : Completable(rows, S[k], After(rows, q, k))}
<1>1. \A j \in DOMAIN rows : q[j] \in 0 .. N /\ j \in Nat /\ j >= 1
  BY DEF Pointed
<1>2. N \in P
  <2>1. After(rows, q, N) = {}
    BY <1>1 DEF After
  <2> DEFINE run == [a \in 1 .. 1 |-> S[N]]
  <2>2. run[1] = S[N] /\ <<>> \in Seq({})
    OBVIOUS
  <2> HIDE DEF run
  <2>3. Completes(rows, S[N], {}, <<>>, run)
    BY <2>2 DEF Completes
  <2>4. Completable(rows, S[N], After(rows, q, N))
    BY <2>1, <2>3 DEF Completable
  <2>5. N \in 0 .. N
    OBVIOUS
  <2> QED
    BY <2>4, <2>5
<1>3. ASSUME NEW k \in 0 + 1 .. N, k \in P PROVE k - 1 \in P
  <2>1. k \in 0 .. N /\ k - 1 \in 0 .. N /\ k \in 1 .. N
    OBVIOUS
  <2> DEFINE rest == After(rows, q, k) \cup At(rows, q, W, k, 1)
  <2>2. Completable(rows, S[k], rest)
    BY <1>3, <2>1, PlaceAt
  <2>3. \A j \in DOMAIN rows : j \in rest <=> q[j] > k \/ (q[j] = k /\ j \notin W)
    BY <1>1 DEF After, At
  <2>4. \A j \in rest : j \in DOMAIN rows
    BY DEF After, At
  <2> HIDE DEF rest
  <2>5. CASE \E w \in W : q[w] = k
    <3>1. PICK w \in W : q[w] = k
      BY <2>5
    <3>2. w \in DOMAIN rows /\ w \notin rest
      BY <2>1, <2>3, <3>1 DEF Pointed
    <3> DEFINE pending == After(rows, q, k - 1)
    <3>3. ASSUME NEW j \in DOMAIN rows PROVE j \in pending <=> j = w \/ j \in rest
      <4>1. q[j] > k - 1 <=> q[j] > k \/ q[j] = k
        BY <1>1, <2>1
      <4>2. q[j] = k /\ j \in W => j = w
        BY <3>1 DEF Pointed
      <4> QED
        BY <2>3, <3>1, <4>1, <4>2 DEF After
    <3>4. pending \subseteq DOMAIN rows
      BY DEF After
    <3> HIDE DEF pending
    <3>5. pending \ {w} = rest /\ w \in pending
      BY <2>4, <3>2, <3>3, <3>4
    <3>6. ASSUME NEW j \in rest PROVE rows[w].invoked <= rows[j].returned
      <4>1. j \in DOMAIN rows /\ q[j] \in Nat /\ (q[j] > k \/ q[j] = k)
        BY <1>1, <2>3, <2>4
      <4>2. ~(rows[j].returned < rows[w].invoked)
        <5>1. SUFFICES ASSUME rows[j].returned < rows[w].invoked PROVE FALSE
          OBVIOUS
        <5>2. q[j] <= q[w] /\ q[j] # q[w]
          BY <3>2, <4>1, <5>1 DEF Pointed
        <5> QED
          BY <2>1, <3>1, <4>1, <5>2
      <4> QED
        BY <3>2, <4>1, <4>2, NotBefore
    <3>7. /\ RefResult(S[k - 1], rows[w].o) = rows[w].observed
          /\ RefStore(S[k - 1], rows[w].o) = S[k]
      BY <3>1 DEF Pointed
    <3> DEFINE store == S[k - 1]
    <3>8. Completable(rows, RefStore(store, rows[w].o), pending \ {w})
      BY <2>2, <3>5, <3>7
    <3>9. RefResult(store, rows[w].o) = rows[w].observed
      BY <3>7
    <3> HIDE DEF store
    <3>10. Completable(rows, store, pending)
      BY <3>5, <3>6, <3>8, <3>9, PlaceFirst
    <3> QED
      BY <2>1, <3>10 DEF pending, store
  <2>6. CASE ~\E w \in W : q[w] = k
    <3>1. S[k] = S[k - 1]
      BY <2>1, <2>6 DEF Pointed
    <3>2. ASSUME NEW j \in DOMAIN rows PROVE q[j] > k - 1 <=> j \in rest
      <4>1. q[j] > k - 1 <=> q[j] > k \/ q[j] = k
        BY <1>1, <2>1
      <4> QED
        BY <2>3, <2>6, <4>1
    <3>3. After(rows, q, k - 1) = rest
      BY <2>4, <3>2 DEF After
    <3> QED
      BY <2>1, <2>2, <3>1, <3>3
  <2> QED
    BY <2>5, <2>6
<1> HIDE DEF P
<1>4. 0 \in P
  <2>1. 0 \in 0 .. N
    OBVIOUS
  <2> QED
    BY <1>2, <1>3, <2>1, DownTheRange
<1>5. Completable(rows, S[0], After(rows, q, 0) \cup At(rows, q, W, 0, 1))
  <2>1. Completable(rows, S[0], After(rows, q, 0)) /\ 0 \in 0 .. N
    BY <1>4 DEF P
  <2> QED
    BY <2>1, PlaceAt
<1>6. After(rows, q, 0) \cup At(rows, q, W, 0, 1) = DOMAIN rows
  <2>1. ASSUME NEW j \in DOMAIN rows PROVE j \in After(rows, q, 0) \/ j \in At(rows, q, W, 0, 1)
    <3>1. CASE j \in W
      <4>1. q[j] >= 1
        BY <3>1 DEF Pointed
      <4> QED
        BY <1>1, <4>1 DEF After
    <3>2. CASE j \notin W
      BY <1>1, <3>2 DEF After, At
    <3> QED
      BY <3>1, <3>2
  <2> QED
    BY <2>1 DEF After, At
<1> QED
  BY <1>5, <1>6

\* A row that is complete took effect at the point p of the log: it is the first
\* entry of its request, or it read what the first p entries make of the store.
PointIs(row, lg, p) ==
    /\ p \in 0 .. Len(lg)
    /\ Logged(row) =>
         /\ p >= 1 /\ lg[p] = Command(row) /\ First(lg, p)
         /\ row.observed = Execute(OnceEach(lg, p - 1).store, row.o).result
    /\ ~Logged(row) => row.observed = OnceEach(lg, p).store[row.o.key]

\* The time of a row is what its place in the history says.
Timed(rows) ==
    \A i \in DOMAIN rows :
      /\ rows[i].invoked = i
      /\ Completed(rows[i]) => rows[i].returned \in i .. Len(rows)

Before(a, b) == Completed(a) /\ a.returned < b.invoked

AskedBy(row, r) == row.client = r.client /\ row.req = r.req

\* pt says where each row took effect, such that what happened before is there
\* before; a read that is being confirmed will see all that happened before it.
Points(rows, lg, rds, pt) ==
    /\ \A i \in DOMAIN rows : Completed(rows[i]) => PointIs(rows[i], lg, pt[i])
    /\ \A i, j \in DOMAIN rows :
         Before(rows[i], rows[j]) /\ Completed(rows[j])
           => pt[i] <= pt[j] /\ (pt[i] = pt[j] => ~Logged(rows[j]))
    /\ \A r \in rds, i, j \in DOMAIN rows :
         AskedBy(rows[j], r) /\ Before(rows[i], rows[j]) => pt[i] <= r.floor

LInv ==
    /\ Timed(history)
    /\ mode # "stale" => \E pt : Points(history, decided, reads, pt)

\* What points are does not depend on when it is said.
LEMMA PointsStay ==
    ASSUME mode' = mode
    PROVE  \A pt : Points(history, decided, reads, pt)'
                     <=> Points(history', decided', reads', pt)
<1>1. \A row, lg, p : PointIs(row, lg, p)' <=> PointIs(row, lg, p)
  BY DEF PointIs, Logged
<1>2. \A row : Logged(row)' <=> Logged(row)
  BY DEF Logged
<1> QED
  BY <1>1, <1>2 DEF Points

\* Fewer reads, and nothing else.
LEMMA PointsFewer ==
    ASSUME LInv, UNCHANGED <<mode, history, decided>>, \A r \in reads' : r \in reads
    PROVE  LInv'
<1>1. Timed(history)'
  BY DEF LInv
<1>2. ASSUME mode' # "stale" PROVE \E pt : Points(history, decided, reads, pt)'
  <2>1. PICK pt : Points(history, decided, reads, pt)
    BY <1>2 DEF LInv
  <2>2. Points(history', decided', reads', pt)
    BY <2>1 DEF Points
  <2>3. Points(history, decided, reads, pt)'
    BY <2>2, PointsStay
  <2> QED
    BY <2>3
<1> QED
  BY <1>1, <1>2 DEF LInv

\* What took effect at a point did so in every log that goes on from there.
LEMMA PointGrows ==
    ASSUME NEW lg \in Seq(Requests), NEW cmd \in Requests, NEW row, NEW p,
           PointIs(row, lg, p)
    PROVE  PointIs(row, Append(lg, cmd), p)
<1> DEFINE more == Append(lg, cmd)
           n == Len(lg)
<1>1. n \in Nat /\ Len(more) = n + 1 /\ \A j \in 1 .. n : more[j] = lg[j]
  OBVIOUS
<1>2. p \in 0 .. n
  BY DEF PointIs
<1>3. \A j \in 0 .. n : OnceEach(more, j) = OnceEach(lg, j)
  BY OncePrefix
<1> HIDE DEF more, n
<1>4. p \in 0 .. Len(more)
  BY <1>1, <1>2
<1>5. ASSUME Logged(row)
      PROVE  /\ p >= 1 /\ more[p] = Command(row) /\ First(more, p)
             /\ row.observed = Execute(OnceEach(more, p - 1).store, row.o).result
  <2>1. /\ p >= 1 /\ lg[p] = Command(row) /\ First(lg, p)
        /\ row.observed = Execute(OnceEach(lg, p - 1).store, row.o).result
    BY <1>5 DEF PointIs
  <2>2. p \in 1 .. n /\ p - 1 \in 0 .. n /\ \A j \in 1 .. p - 1 : j \in 1 .. n
    BY <1>1, <1>2, <2>1
  <2>3. more[p] = lg[p] /\ OnceEach(more, p - 1) = OnceEach(lg, p - 1)
    BY <1>1, <1>3, <2>2
  <2>4. First(more, p)
    BY <1>1, <2>1, <2>2 DEF First
  <2> QED
    BY <2>1, <2>3, <2>4
<1>6. ASSUME ~Logged(row) PROVE row.observed = OnceEach(more, p).store[row.o.key]
  BY <1>2, <1>3, <1>6 DEF PointIs
<1>7. PointIs(row, more, p)
  BY <1>4, <1>5, <1>6 DEF PointIs
<1> QED
  BY <1>7 DEF more

\* An operation that is completed by an answer, if it was not before, takes effect
\* at p, which is past all that happened before it.
LEMMA AnswerPoints ==
    ASSUME SInv, Timed(history), NEW i \in DOMAIN history, NEW result \in Results,
           NEW lg, NEW rds, NEW pt, NEW p,
           Points(history, decided, reads, pt), \A r \in rds : r \in reads,
           \A a \in DOMAIN history :
             Completed(history[a]) => PointIs(history[a], lg, pt[a]),
           LET new == [history[i] EXCEPT !.returned = Len(history), !.observed = result]
           IN ~Completed(history[i]) =>
                /\ PointIs(new, lg, p)
                /\ \A a \in DOMAIN history :
                     Before(history[a], history[i])
                       => pt[a] <= p /\ (pt[a] = p => ~Logged(history[i]))
    PROVE  LET rows == OnApply(history, Command(history[i]), result)
           IN Timed(rows) /\ \E q : Points(rows, lg, rds, q)
<1> DEFINE cmd == Command(history[i])
           rows == OnApply(history, cmd, result)
           L == Len(history)
           new == [history[i] EXCEPT !.returned = L, !.observed = result]
<1>1. /\ history \in Seq(Rows) /\ L \in Nat /\ DOMAIN history = 1 .. L
      /\ Numbered(history)
  BY SInvTypes DEF SInv
<1>2. /\ rows \in Seq(Rows) /\ Len(rows) = L
      /\ \A a \in DOMAIN history : rows[a] = Answered(history[a], cmd, result, L)
  BY <1>1, OnApplyRows
<1>3. DOMAIN rows = DOMAIN history
  BY <1>1, <1>2
<1>4. history[i] \in Rows /\ i \in 1 .. L /\ L >= 1
  BY <1>1
<1>5. /\ new.returned = L /\ new.observed = result /\ new.invoked = history[i].invoked
      /\ new.client = history[i].client /\ new.req = history[i].req /\ new.o = history[i].o
  BY <1>4 DEF Rows
<1>6. ASSUME NEW a \in DOMAIN history, a # i \/ Completed(history[i])
      PROVE  rows[a] = history[a]
  <2>1. Command(history[a]) = cmd => a = i
    BY <1>1, CommandIs, RowUnique
  <2> QED
    BY <1>2, <1>6, <2>1 DEF Answered
<1>7. ASSUME ~Completed(history[i]) PROVE rows[i] = new
  BY <1>2, <1>7 DEF Answered
<1> HIDE DEF rows, new
<1>8. CASE Completed(history[i])
  <2>1. \A a \in DOMAIN history : rows[a] = history[a]
    BY <1>6, <1>8
  <2>2. Timed(rows)
    BY <1>2, <1>3, <2>1 DEF Timed
  <2>3. Points(rows, lg, rds, pt)
    BY <1>3, <2>1 DEF Points
  <2> QED
    BY <2>2, <2>3 DEF rows
<1>9. CASE ~Completed(history[i])
  <2> DEFINE q == [a \in DOMAIN history |-> IF a = i THEN p ELSE pt[a]]
  <2>1. q[i] = p /\ \A a \in DOMAIN history : a # i => q[a] = pt[a]
    OBVIOUS
  <2> HIDE DEF q
  <2>2. rows[i] = new /\ \A a \in DOMAIN history : a # i => rows[a] = history[a]
    BY <1>6, <1>7, <1>9
  <2>3. Completed(new)
    BY <1>4, <1>5 DEF Completed
  <2>4. \A a \in DOMAIN history : history[a].invoked \in 1 .. L /\ rows[a].invoked = history[a].invoked
    BY <1>1, <1>5, <2>2 DEF Timed
  <2>5. ASSUME NEW a \in DOMAIN history, NEW b \in DOMAIN history, Before(rows[a], rows[b])
        PROVE  a # i /\ Before(history[a], history[b])
    <3>1. a # i
      <4>1. SUFFICES ASSUME a = i PROVE FALSE
        OBVIOUS
      <4>2. L < history[b].invoked
        BY <1>5, <2>2, <2>4, <2>5, <4>1 DEF Before
      <4> QED
        BY <1>1, <2>4, <4>2
    <3> QED
      BY <2>2, <2>4, <2>5, <3>1 DEF Before
  <2>6. Timed(rows)
    <3>1. ASSUME NEW a \in DOMAIN rows
          PROVE  /\ rows[a].invoked = a
                 /\ Completed(rows[a]) => rows[a].returned \in a .. Len(rows)
      <4>1. rows[a].invoked = a
        BY <1>3, <2>4 DEF Timed
      <4>2. CASE a = i
        BY <1>1, <1>2, <1>4, <1>5, <2>2, <4>1, <4>2
      <4>3. CASE a # i
        BY <1>2, <1>3, <2>2, <4>1, <4>3 DEF Timed
      <4> QED
        BY <4>1, <4>2, <4>3
    <3> QED
      BY <3>1 DEF Timed
  <2>7. ASSUME NEW a \in DOMAIN history, Completed(rows[a]) PROVE PointIs(rows[a], lg, q[a])
    <3>1. CASE a = i
      <4>1. PointIs(new, lg, p)
        BY <1>9 DEF new
      <4> QED
        BY <2>1, <2>2, <3>1, <4>1
    <3>2. CASE a # i
      BY <2>1, <2>2, <2>7, <3>2
    <3> QED
      BY <3>1, <3>2
  <2>8. ASSUME NEW a \in DOMAIN history, NEW b \in DOMAIN history,
               Before(rows[a], rows[b]), Completed(rows[b])
        PROVE  q[a] <= q[b] /\ (q[a] = q[b] => ~Logged(rows[b]))
    <3>1. a # i /\ Before(history[a], history[b])
      BY <2>5, <2>8
    <3>2. CASE b = i
      <4>1. pt[a] <= p /\ (pt[a] = p => ~Logged(history[i]))
        BY <1>9, <3>1, <3>2
      <4>2. Logged(rows[i]) <=> Logged(history[i])
        BY <1>5, <2>2, SameLogged
      <4> QED
        BY <2>1, <3>1, <3>2, <4>1, <4>2
    <3>3. CASE b # i
      <4>1. rows[b] = history[b] /\ q[a] = pt[a] /\ q[b] = pt[b]
        BY <2>1, <2>2, <3>1, <3>3
      <4> QED
        BY <2>8, <3>1, <4>1 DEF Points
    <3> QED
      BY <3>2, <3>3
  <2>9. ASSUME NEW r \in rds, NEW a \in DOMAIN history, NEW b \in DOMAIN history,
               AskedBy(rows[b], r), Before(rows[a], rows[b])
        PROVE  q[a] <= r.floor
    <3>1. a # i /\ Before(history[a], history[b])
      BY <2>5, <2>9
    <3>2. AskedBy(history[b], r)
      BY <1>5, <2>2, <2>9 DEF AskedBy
    <3>3. q[a] = pt[a] /\ r \in reads
      BY <2>1, <3>1
    <3> QED
      BY <3>1, <3>2, <3>3 DEF Points
  <2>10. Points(rows, lg, rds, q)
    BY <1>3, <2>7, <2>8, <2>9 DEF Points
  <2> QED
    BY <2>6, <2>10 DEF rows
<1> QED
  BY <1>8, <1>9

\* Invoke keeps LInv: what is invoked now comes after all that returned.
LEMMA InvokeL ==
    ASSUME SInv, SInv', LInv, NEW c \in Clients, Invoke(c)
    PROVE  LInv'
<1> DEFINE L == Len(history)
<1>1. /\ UNCHANGED <<mode, decided, reads>>
      /\ \E o \in Workload :
           history' = Append(history,
             [client |-> c, req |-> Cardinality(RowsOf(c)) + 1, o |-> o,
              invoked |-> Len(history) + 1, returned |-> 0, observed |-> Absent])
  BY DEF Invoke, clusterVars
<1>2. PICK o \in Workload :
        history' = Append(history,
          [client |-> c, req |-> Cardinality(RowsOf(c)) + 1, o |-> o,
           invoked |-> L + 1, returned |-> 0, observed |-> Absent])
  BY <1>1
<1> DEFINE new == [client |-> c, req |-> Cardinality(RowsOf(c)) + 1, o |-> o,
                   invoked |-> L + 1, returned |-> 0, observed |-> Absent]
<1>3. history' = Append(history, new) /\ new.invoked = L + 1 /\ ~Completed(new)
  BY <1>2 DEF Completed
<1> HIDE DEF new
<1>4. /\ history \in Seq(Rows) /\ L \in Nat /\ DOMAIN history = 1 .. L
      /\ history' \in Seq(Rows) /\ Numbered(history')
  <2>1. history \in Seq(Rows) /\ L \in Nat /\ DOMAIN history = 1 .. L
    BY SInvTypes
  <2>2. Numbered(history)'
    BY DEF SInv
  <2>3. history' \in Seq(Rows)
    BY DEF SInv, ServiceTypeOK
  <2> QED
    BY <2>1, <2>2, <2>3 DEF Numbered
<1>5. /\ Len(history') = L + 1 /\ DOMAIN history' = 1 .. L + 1 /\ history'[L + 1] = new
      /\ \A i \in 1 .. L : history'[i] = history[i]
  BY <1>3, <1>4
<1>6. \A i \in 1 .. L + 1 : i = L + 1 \/ i \in 1 .. L
  BY <1>4
<1> HIDE DEF L
<1>7. Timed(history')
  <2>1. ASSUME NEW i \in 1 .. L + 1
        PROVE  /\ history'[i].invoked = i
               /\ Completed(history'[i]) => history'[i].returned \in i .. L + 1
    <3>1. CASE i = L + 1
      BY <1>3, <1>5, <3>1
    <3>2. CASE i \in 1 .. L
      <4>1. /\ history[i].invoked = i
            /\ Completed(history[i]) => history[i].returned \in i .. L
        BY <1>4, <3>2 DEF LInv, Timed, L
      <4> QED
        BY <1>4, <1>5, <3>2, <4>1
    <3> QED
      BY <1>6, <3>1, <3>2
  <2> QED
    BY <1>5, <2>1 DEF Timed
<1>8. ASSUME NEW pt, Points(history, decided, reads, pt)
      PROVE  Points(history', decided, reads, pt)
  <2>1. ASSUME NEW i \in 1 .. L + 1, Completed(history'[i]) PROVE i \in 1 .. L
    BY <1>3, <1>5, <1>6, <2>1
  <2>2. \A i \in 1 .. L + 1 : Completed(history'[i]) => PointIs(history'[i], decided, pt[i])
    BY <1>4, <1>5, <1>8, <2>1 DEF Points
  <2>3. ASSUME NEW i \in 1 .. L + 1, NEW j \in 1 .. L + 1,
               Before(history'[i], history'[j]), Completed(history'[j])
        PROVE  pt[i] <= pt[j] /\ (pt[i] = pt[j] => ~Logged(history'[j]))
    <3>1. i \in 1 .. L /\ j \in 1 .. L
      BY <2>1, <2>3 DEF Before
    <3> QED
      BY <1>4, <1>5, <1>8, <2>3, <3>1 DEF Points
  <2>4. ASSUME NEW r \in reads, NEW i \in 1 .. L + 1, NEW j \in 1 .. L + 1,
               AskedBy(history'[j], r), Before(history'[i], history'[j])
        PROVE  pt[i] <= r.floor
    <3>1. i \in 1 .. L
      BY <2>1, <2>4 DEF Before
    <3>2. PICK a \in 1 .. L : history[a].client = r.client /\ history[a].req = r.req
      BY <1>4 DEF SInv, ReadsAsked
    <3>3. a \in 1 .. L + 1 /\ history'[a] = history[a]
      BY <1>4, <1>5, <3>2
    <3>4. history'[a].client = history'[j].client /\ history'[a].req = history'[j].req
      BY <2>4, <3>2, <3>3 DEF AskedBy
    <3>5. a = j
      BY <1>4, <1>5, <3>3, <3>4, RowUnique
    <3>6. j \in 1 .. L
      BY <3>2, <3>5
    <3> QED
      BY <1>4, <1>5, <1>8, <2>4, <3>1, <3>6 DEF Points
  <2> QED
    BY <1>5, <2>2, <2>3, <2>4 DEF Points
<1>9. ASSUME mode' # "stale" PROVE \E pt : Points(history, decided, reads, pt)'
  <2>1. PICK pt : Points(history, decided, reads, pt)
    BY <1>1, <1>9 DEF LInv
  <2>2. Points(history', decided', reads', pt)
    BY <1>1, <1>8, <2>1
  <2>3. Points(history, decided, reads, pt)'
    BY <1>1, <2>2, PointsStay
  <2> QED
    BY <2>3
<1> QED
  BY <1>7, <1>9 DEF LInv, Timed

\* RequestRead keeps LInv: its floor is past all that was committed so far.
LEMMA RequestReadL ==
    ASSUME SInv, LInv, NEW n \in Nodes, NEW c \in Clients, RequestRead(n, c)
    PROVE  LInv'
<1>1. UNCHANGED <<mode, decided, history>>
  BY DEF RequestRead
<1>2. PICK i \in Pending(c) :
        reads' = reads \cup {[node |-> n, client |-> c, req |-> history[i].req,
                              floor |-> Len(decided)]}
  BY DEF RequestRead
<1> DEFINE new == [node |-> n, client |-> c, req |-> history[i].req, floor |-> Len(decided)]
<1>3. reads' = reads \cup {new} /\ new.floor = Len(decided)
  BY <1>2
<1> HIDE DEF new
<1>4. Timed(history)'
  BY <1>1 DEF LInv
<1>5. Len(decided) \in Nat
  BY SInvTypes
<1>6. ASSUME NEW pt, Points(history, decided, reads, pt)
      PROVE  Points(history, decided, reads', pt)
  <2>1. ASSUME NEW r \in reads', NEW a \in DOMAIN history, NEW b \in DOMAIN history,
               AskedBy(history[b], r), Before(history[a], history[b])
        PROVE  pt[a] <= r.floor
    <3>1. CASE r \in reads
      BY <1>6, <2>1, <3>1 DEF Points
    <3>2. CASE r = new
      <4>1. PointIs(history[a], decided, pt[a])
        BY <1>6, <2>1 DEF Points, Before
      <4>2. pt[a] \in 0 .. Len(decided)
        BY <4>1 DEF PointIs
      <4> QED
        BY <1>3, <1>5, <3>2, <4>2
    <3> QED
      BY <1>3, <3>1, <3>2
  <2> QED
    BY <1>6, <2>1 DEF Points
<1>7. ASSUME mode' # "stale" PROVE \E pt : Points(history, decided, reads, pt)'
  <2>1. PICK pt : Points(history, decided, reads, pt)
    BY <1>1, <1>7 DEF LInv
  <2>2. Points(history', decided', reads', pt)
    BY <1>1, <1>6, <2>1
  <2>3. Points(history, decided, reads, pt)'
    BY <1>1, <2>2, PointsStay
  <2> QED
    BY <2>3
<1> QED
  BY <1>4, <1>7 DEF LInv

\* What follows for the service from AnswerPoints.
LEMMA AnsweredL ==
    ASSUME mode' = mode, Timed(history'), mode' # "stale" => \E q : Points(history', decided', reads', q)
    PROVE  LInv'
<1>1. Timed(history)'
  BY DEF Timed
<1>2. ASSUME mode' # "stale" PROVE \E pt : Points(history, decided, reads, pt)'
  <2>1. PICK pt : Points(history', decided', reads', pt)
    BY <1>2
  <2>2. Points(history, decided, reads, pt)'
    BY <2>1, PointsStay
  <2> QED
    BY <2>2
<1> QED
  BY <1>1, <1>2 DEF LInv

\* An answer keeps the times of the rows, wherever it comes from.
LEMMA AnswerTimed ==
    ASSUME SInv, Timed(history), NEW i \in DOMAIN history, NEW result \in Results
    PROVE  Timed(OnApply(history, Command(history[i]), result))
<1> DEFINE cmd == Command(history[i])
           rows == OnApply(history, cmd, result)
           L == Len(history)
<1>1. history \in Seq(Rows) /\ L \in Nat /\ DOMAIN history = 1 .. L
  BY SInvTypes
<1>2. /\ rows \in Seq(Rows) /\ Len(rows) = L
      /\ \A a \in DOMAIN history : rows[a] = Answered(history[a], cmd, result, L)
  BY <1>1, OnApplyRows
<1> HIDE DEF rows, cmd
<1>3. ASSUME NEW a \in 1 .. L
      PROVE  /\ rows[a].invoked = a
             /\ Completed(rows[a]) => rows[a].returned \in a .. L
  <2>1. history[a] \in Rows /\ history[a].invoked = a
        /\ (Completed(history[a]) => history[a].returned \in a .. L)
    BY <1>1 DEF Timed
  <2>2. CASE Command(history[a]) = cmd /\ ~Completed(history[a])
    <3>1. rows[a] = [history[a] EXCEPT !.returned = L, !.observed = result]
      BY <1>1, <1>2, <2>2 DEF Answered
    <3>2. rows[a].returned = L /\ rows[a].invoked = history[a].invoked
      BY <2>1, <3>1 DEF Rows
    <3> QED
      BY <1>1, <2>1, <3>2
  <2>3. CASE ~(Command(history[a]) = cmd /\ ~Completed(history[a]))
    <3>1. rows[a] = history[a]
      BY <1>1, <1>2, <2>3 DEF Answered
    <3> QED
      BY <2>1, <3>1
  <2> QED
    BY <2>2, <2>3
<1>4. Timed(rows)
  BY <1>1, <1>2, <1>3 DEF Timed
<1> QED
  BY <1>4 DEF rows, cmd

\* StaleRead keeps LInv, which asks nothing of stale reads but their time.
LEMMA StaleReadL ==
    ASSUME SInv, LInv, NEW n \in Nodes, NEW c \in Clients, StaleRead(n, c)
    PROVE  LInv'
<1>1. PICK i \in Pending(c) : Answer(n, history[i])
  BY DEF StaleRead
<1>2. i \in DOMAIN history
  BY DEF Pending, RowsOf
<1>3. mode' = mode /\ mode = "stale"
  BY DEF StaleRead
<1> DEFINE result == image[n].store[history[i].o.key]
<1>4. result \in Results
  <2>1. image[n] \in Images
    BY SInvTypes DEF ServersOK
  <2>2. history[i].o \in Operations
    BY <1>2, SInvTypes, RowFields
  <2>3. image[n].store \in Stores /\ history[i].o.key \in Keys
    BY <2>1, <2>2 DEF Images, Operations
  <2> QED
    BY <2>3 DEF Stores, Results
<1>5. history' = OnApply(history, Command(history[i]), result)
  BY <1>1 DEF Answer
<1> HIDE DEF result
<1>6. Timed(history')
  BY <1>2, <1>4, <1>5, AnswerTimed DEF LInv
<1> QED
  BY <1>3, <1>6, AnsweredL

\* The row that an answer completes.
LEMMA AnsweredRow ==
    ASSUME NEW rows \in Seq(Rows), NEW i \in DOMAIN rows, NEW result
    PROVE  LET new == [rows[i] EXCEPT !.returned = Len(rows), !.observed = result]
           IN /\ new.observed = result /\ new.o = rows[i].o
              /\ Command(new) = Command(rows[i])
              /\ Logged(new) <=> Logged(rows[i])
<1> DEFINE new == [rows[i] EXCEPT !.returned = Len(rows), !.observed = result]
<1>1. rows[i] \in Rows
  OBVIOUS
<1>2. /\ new.observed = result /\ new.o = rows[i].o
      /\ new.client = rows[i].client /\ new.req = rows[i].req
  BY <1>1 DEF Rows
<1> HIDE DEF new
<1>3. Command(new) = Command(rows[i])
  BY <1>2, CommandIs
<1>4. Logged(new) <=> Logged(rows[i])
  BY <1>2, SameLogged
<1> QED
  BY <1>2, <1>3, <1>4 DEF new

\* A request that is committed takes effect where it is committed.
LEMMA CommitL ==
    ASSUME SInv, AllDecided, LInv, verdict = "none", NEW n \in Nodes, Commit(n)
    PROVE  LInv'
<1>1. DoneDecided(history, decided)
  BY DEF AllDecided
<1>2. PICK i \in DOMAIN history : Committed(n, i)
  BY <1>1, CommitIs
<1> DEFINE cmd == Command(history[i])
           k == Len(decided)
           more == Append(decided, cmd)
           result == Apply(OnceEach(decided, k), cmd).result
           new == [history[i] EXCEPT !.returned = Len(history), !.observed = result]
<1>3. /\ history \in Seq(Rows) /\ decided \in Seq(Requests) /\ k \in Nat
  BY SInvTypes
<1>4. cmd \in Requests
  BY <1>3, RowFields
<1>5. OnceEach(decided, k) \in Images
  BY <1>3, OnceEachIs
<1>6. result \in Results
  BY <1>4, <1>5, ApplyTyped
<1>7. /\ Logged(history[i]) /\ decided' = more
      /\ history' = OnApply(history, cmd, result)
      /\ Sessional(more)
      /\ UNCHANGED <<mode, reads, crashes>>
  BY <1>2 DEF Committed
<1>8. /\ more \in Seq(Requests) /\ Len(more) = k + 1
      /\ more[k + 1] = cmd /\ \A j \in 1 .. k : more[j] = decided[j]
  BY <1>3, <1>4
<1>9. OnceEach(more, k) = OnceEach(decided, k)
  BY <1>3, <1>4, OncePrefix
<1>10. cmd.o = history[i].o
  BY CommandIs
<1>11. /\ new.observed = result /\ new.o = history[i].o /\ Command(new) = cmd
       /\ Logged(new)
  <2> HIDE DEF result
  <2>1. /\ new.observed = result /\ new.o = history[i].o
        /\ Command(new) = Command(history[i])
        /\ Logged(new) <=> Logged(history[i])
    BY <1>3, AnsweredRow
  <2> HIDE DEF new
  <2> QED
    BY <1>7, <2>1
<1>12. Timed(history')
  BY <1>6, <1>7, AnswerTimed DEF LInv
<1>13. ASSUME ~Completed(history[i]) PROVE PointIs(new, more, k + 1)
  <2> HIDE DEF more, new, cmd
  <2>1. First(more, k + 1)
    <3>1. SUFFICES ASSUME NEW j \in 1 .. (k + 1) - 1, more[j] = more[k + 1] PROVE FALSE
      BY DEF First
    <3>2. j \in 1 .. k
      BY <1>3
    <3>3. decided[j] = Command(history[i])
      BY <1>8, <3>1, <3>2 DEF cmd
    <3> QED
      BY <1>13, <3>2, <3>3, DecidedComplete
  <2>2. k + 1 \in 1 .. Len(more) /\ (k + 1) - 1 = k /\ k + 1 \in 0 .. Len(more) /\ k + 1 >= 1
    BY <1>3, <1>8
  <2>3. ~Duplicate(OnceEach(decided, k), cmd)
    <3> DEFINE last == k + 1
    <3>1. last \in 1 .. Len(more) /\ First(more, last)
      BY <2>1, <2>2
    <3> HIDE DEF last
    <3>2. ~Duplicate(OnceEach(more, last - 1), more[last])
      BY <1>7, <1>8, <3>1, RepeatsKnown
    <3>3. OnceEach(more, last - 1) = OnceEach(decided, k) /\ more[last] = cmd
      BY <1>8, <1>9, <2>2 DEF last
    <3> QED
      BY <3>2, <3>3
  <2>4. result = Execute(OnceEach(decided, k).store, cmd.o).result
    BY <2>3, ApplyIs
  <2>5. new.observed = Execute(OnceEach(more, (k + 1) - 1).store, new.o).result
    BY <1>9, <1>10, <1>11, <2>2, <2>4
  <2>6. more[k + 1] = Command(new)
    BY <1>8, <1>11
  <2> HIDE DEF k, result
  <2> QED
    BY <1>11, <2>1, <2>2, <2>5, <2>6 DEF PointIs
<1>14. ASSUME mode' # "stale" PROVE \E q : Points(history', decided', reads', q)
  <2>1. PICK pt : Points(history, decided, reads, pt)
    BY <1>7, <1>14 DEF LInv
  <2>2. ASSUME NEW a \in DOMAIN history, Completed(history[a])
        PROVE  PointIs(history[a], more, pt[a]) /\ pt[a] \in 0 .. k
    <3>1. PointIs(history[a], decided, pt[a])
      BY <2>1, <2>2 DEF Points
    <3> DEFINE row == history[a]
               x == pt[a]
    <3>2. PointIs(row, decided, x)
      BY <3>1
    <3> HIDE DEF row, x, cmd
    <3>3. PointIs(row, more, x)
      BY <1>3, <1>4, <3>2, PointGrows
    <3>4. x \in 0 .. k
      BY <3>2 DEF PointIs
    <3> QED
      BY <3>3, <3>4 DEF row, x
  <2>3. ASSUME NEW a \in DOMAIN history, Before(history[a], history[i])
        PROVE  pt[a] <= k + 1 /\ (pt[a] = k + 1 => ~Logged(history[i]))
    <3>1. pt[a] \in 0 .. k
      BY <2>2, <2>3 DEF Before
    <3> QED
      BY <1>3, <3>1
  <2> DEFINE p == k + 1
  <2>4. /\ \A r \in reads : r \in reads
        /\ \A a \in DOMAIN history : Completed(history[a]) => PointIs(history[a], more, pt[a])
        /\ ~Completed(history[i]) =>
             /\ PointIs(new, more, p)
             /\ \A a \in DOMAIN history :
                  Before(history[a], history[i])
                    => pt[a] <= p /\ (pt[a] = p => ~Logged(history[i]))
    BY <1>13, <2>2, <2>3
  <2> HIDE DEF more, p, result
  <2>5. \E q : Points(OnApply(history, Command(history[i]), result), more, reads, q)
    BY <1>6, <2>1, <2>4, AnswerPoints DEF LInv
  <2> QED
    BY <1>7, <2>5
<1> QED
  BY <1>7, <1>12, <1>14, AnsweredL

\* A read that is served takes effect where its server stands, which is past all
\* that was committed when it was requested.
LEMMA ServeReadL ==
    ASSUME SInv, LInv, ServeRead
    PROVE  LInv'
<1>1. PICK r \in reads : /\ Servable(r) /\ reads' = reads \ {r}
                         /\ \E row \in Range(history) :
                              /\ row.client = r.client /\ row.req = r.req
                              /\ Answer(r.node, row)
  BY DEF ServeRead
<1>2. PICK row \in Range(history) : /\ row.client = r.client /\ row.req = r.req
                                    /\ Answer(r.node, row)
  BY <1>1
<1>3. PICK i \in DOMAIN history : row = history[i] /\ ~Logged(history[i])
  BY <1>2, ServedRow
<1> DEFINE n == r.node
           p == position[n]
           result == image[n].store[history[i].o.key]
           new == [history[i] EXCEPT !.returned = Len(history), !.observed = result]
<1>4. n \in Nodes /\ r.floor \in Nat
  BY SInvTypes
<1>5. UNCHANGED <<mode, decided>>
  BY DEF ServeRead
<1>6. /\ history \in Seq(Rows) /\ decided \in Seq(Requests) /\ Len(decided) \in Nat
      /\ p \in 0 .. Len(decided) /\ image[n] \in Images
      /\ image[n] = OnceEach(decided, p)
  BY <1>4, SInvTypes DEF ServersOK
<1>7. result \in Results
  <2>1. history[i].o \in Operations
    BY <1>6, RowFields
  <2>2. image[n].store \in Stores /\ history[i].o.key \in Keys
    BY <1>6, <2>1 DEF Images, Operations
  <2> QED
    BY <2>2 DEF Stores, Results
<1>8. history' = OnApply(history, Command(history[i]), result)
  BY <1>2, <1>3 DEF Answer
<1>9. /\ new.observed = result /\ new.o = history[i].o /\ ~Logged(new)
  BY <1>3, <1>6, AnsweredRow
<1>10. r.floor <= p
  BY <1>1, <1>4, <1>6 DEF Servable
<1>11. PointIs(new, decided, p)
  <2>1. new.observed = OnceEach(decided, p).store[new.o.key]
    BY <1>6, <1>9
  <2> HIDE DEF new, p
  <2> QED
    BY <1>6, <1>9, <2>1 DEF PointIs
<1>12. Timed(history')
  BY <1>7, <1>8, AnswerTimed DEF LInv
<1>13. ASSUME mode' # "stale" PROVE \E q : Points(history', decided', reads', q)
  <2>1. PICK pt : Points(history, decided, reads, pt)
    BY <1>5, <1>13 DEF LInv
  <2>2. AskedBy(history[i], r)
    BY <1>2, <1>3 DEF AskedBy
  <2>3. ASSUME NEW a \in DOMAIN history, Before(history[a], history[i])
        PROVE  pt[a] <= p /\ (pt[a] = p => ~Logged(history[i]))
    <3>1. pt[a] <= r.floor
      BY <2>1, <2>2, <2>3 DEF Points
    <3>2. PointIs(history[a], decided, pt[a])
      BY <2>1, <2>3 DEF Points, Before
    <3>3. pt[a] \in 0 .. Len(decided)
      BY <3>2 DEF PointIs
    <3> QED
      BY <1>3, <1>4, <1>6, <1>10, <3>1, <3>3
  <2>4. /\ \A s \in reads' : s \in reads
        /\ \A a \in DOMAIN history :
             Completed(history[a]) => PointIs(history[a], decided, pt[a])
        /\ ~Completed(history[i]) =>
             /\ PointIs(new, decided, p)
             /\ \A a \in DOMAIN history :
                  Before(history[a], history[i])
                    => pt[a] <= p /\ (pt[a] = p => ~Logged(history[i]))
    BY <1>1, <1>11, <2>1, <2>3 DEF Points
  <2> HIDE DEF p, result
  <2>5. \E q : Points(OnApply(history, Command(history[i]), result), decided, reads', q)
    BY <1>7, <2>1, <2>4, AnswerPoints DEF LInv
  <2> QED
    BY <1>5, <1>8, <2>5
<1> QED
  BY <1>5, <1>12, <1>13, AnsweredL

\* Every step of the service keeps LInv.
LEMMA ServiceL ==
    ASSUME SInv, SInv', AllDecided, LInv, verdict = "none", ServiceNext
    PROVE  LInv'
<1>1. CASE \E c \in Clients : Invoke(c)
  BY <1>1, InvokeL
<1>2. CASE \E n \in Nodes : Commit(n) \/ Learn(n) \/ Crash(n)
  <2>1. PICK n \in Nodes : Commit(n) \/ Learn(n) \/ Crash(n)
    BY <1>2
  <2>2. CASE Commit(n)
    BY <2>2, CommitL
  <2>3. CASE Learn(n)
    <3>1. PICK upto : Learnt(n, upto)
      BY <2>3, LearnIs
    <3> QED
      BY <3>1, PointsFewer DEF Learnt
  <2>4. CASE Crash(n)
    BY <2>4, PointsFewer DEF Crash
  <2> QED
    BY <2>1, <2>2, <2>3, <2>4
<1>3. CASE \E n, p \in Nodes : Install(n, p)
  BY <1>3, PointsFewer DEF Install
<1>4. CASE \E n \in Nodes, c \in Clients : RequestRead(n, c) \/ StaleRead(n, c)
  <2>1. PICK n \in Nodes, c \in Clients : RequestRead(n, c) \/ StaleRead(n, c)
    BY <1>4
  <2>2. CASE RequestRead(n, c)
    BY <2>2, RequestReadL
  <2>3. CASE StaleRead(n, c)
    BY <2>3, StaleReadL
  <2> QED
    BY <2>1, <2>2, <2>3
<1>5. CASE ServeRead
  BY <1>5, ServeReadL
<1> QED
  BY <1>1, <1>2, <1>3, <1>4, <1>5 DEF ServiceNext

\* While the service runs, its history has such points; once it is checked, the
\* history can be ordered.
Ordered ==
    /\ verdict = "none" => LInv
    /\ verdict # "none" /\ mode # "stale" => Completable(ops, EmptyStore, DOMAIN ops)

\* Of two first entries with the same request, the one is the other.
LEMMA FirstUnique ==
    ASSUME NEW lg \in Seq(Requests), NEW j \in 1 .. Len(lg), NEW k \in 1 .. Len(lg),
           First(lg, j), First(lg, k), lg[j] = lg[k]
    PROVE  j = k
<1>1. j \in Nat /\ k \in Nat
  OBVIOUS
<1>2. ~(j < k) /\ ~(k < j)
  BY <1>1 DEF First
<1> QED
  BY <1>1, <1>2

\* The completed rows of a history whose operations have points in the log can be
\* ordered.
LEMMA LogOrders ==
    ASSUME SInv, Timed(history), NEW pt, Points(history, decided, reads, pt),
           NEW s, NEW f, Embeds(history, Len(history), s, f)
    PROVE  Completable(s, EmptyStore, DOMAIN s)
<1> DEFINE N == Len(decided)
           L == Len(s)
           S == [k \in 0 .. N |-> OnceEach(decided, k).store]
           q == [j \in 1 .. L |-> pt[f[j]]]
           W == {j \in 1 .. L : Logged(s[j])}
<1>1. /\ history \in Seq(Rows) /\ decided \in Seq(Requests) /\ N \in Nat
      /\ DOMAIN history = 1 .. Len(history) /\ Numbered(history)
  BY SInvTypes DEF SInv
<1>2. /\ s \in Seq(Rows) /\ f \in [1 .. L -> DOMAIN history]
      /\ \A a, b \in 1 .. L : a < b => f[a] < f[b]
      /\ \A a \in 1 .. L : s[a] = history[f[a]] /\ Completed(history[f[a]])
      /\ \A i \in DOMAIN history : Completed(history[i]) => \E a \in 1 .. L : f[a] = i
  BY <1>1 DEF Embeds
<1>3. /\ L \in Nat /\ DOMAIN s = 1 .. L
      /\ \A j \in 1 .. L : /\ f[j] \in DOMAIN history /\ f[j] \in Nat
                           /\ s[j].o \in Operations
                           /\ q[j] = pt[f[j]]
  <2>1. L \in Nat /\ DOMAIN s = 1 .. L
    BY <1>2
  <2>2. \A j \in 1 .. L : f[j] \in DOMAIN history /\ f[j] \in Nat
    BY <1>1, <1>2
  <2>3. \A j \in 1 .. L : s[j].o \in Operations
    BY <1>2, <2>1, RowFields
  <2> QED
    BY <2>1, <2>2, <2>3
<1>4. /\ S[0] = EmptyStore
      /\ \A k \in 0 .. N : S[k] = OnceEach(decided, k).store
      /\ \A k \in 1 .. N :
           S[k] = IF First(decided, k) THEN Execute(S[k - 1], decided[k].o).store
                  ELSE S[k - 1]
  <2>1. 0 \in 0 .. N /\ \A k \in 1 .. N : k - 1 \in 0 .. N /\ k \in 0 .. N
    BY <1>1
  <2>2. \A k \in 0 .. N : S[k] = OnceEach(decided, k).store
    OBVIOUS
  <2>3. OnceEach(decided, 0) = EmptyImage
    BY <1>1, OnceEachIs
  <2>4. EmptyImage.store = EmptyStore
    BY DEF EmptyImage
  <2>5. ASSUME NEW k \in 1 .. N
        PROVE  S[k] = IF First(decided, k) THEN Execute(S[k - 1], decided[k].o).store
                      ELSE S[k - 1]
    <3>1. OnceEach(decided, k) = OnceStepOf(decided, OnceEach(decided, k - 1), k)
      BY <1>1, OnceEachIs
    <3>2. /\ S[k] = OnceEach(decided, k).store
          /\ S[k - 1] = OnceEach(decided, k - 1).store
      BY <2>1, <2>2
    <3> HIDE DEF S
    <3>3. CASE First(decided, k)
      <4>1. OnceEach(decided, k) = Executed(OnceEach(decided, k - 1), decided[k])
        BY <3>1, <3>3 DEF OnceStepOf
      <4> QED
        BY <3>2, <3>3, <4>1 DEF Executed
    <3>4. CASE ~First(decided, k)
      BY <3>1, <3>2, <3>4 DEF OnceStepOf
    <3> QED
      BY <3>3, <3>4
  <2> HIDE DEF S
  <2> QED
    BY <2>1, <2>2, <2>3, <2>4, <2>5
<1> HIDE DEF S, q, N, L
<1>5. ASSUME NEW j \in 1 .. L PROVE PointIs(s[j], decided, q[j])
  <2>1. PointIs(history[f[j]], decided, pt[f[j]])
    BY <1>2, <1>3 DEF Points
  <2> QED
    BY <1>2, <1>3, <2>1
<1>6. ASSUME NEW j \in 1 .. L PROVE q[j] \in 0 .. N
  BY <1>5 DEF PointIs, N
<1>7. ASSUME NEW j \in 1 .. L, Logged(s[j])
      PROVE  /\ q[j] >= 1 /\ q[j] \in 1 .. N /\ decided[q[j]] = Command(s[j])
             /\ First(decided, q[j])
             /\ RefResult(S[q[j] - 1], s[j].o) = s[j].observed
             /\ RefStore(S[q[j] - 1], s[j].o) = S[q[j]]
  <2> DEFINE p == q[j]
  <2>1. /\ p >= 1 /\ decided[p] = Command(s[j]) /\ First(decided, p)
        /\ s[j].observed = Execute(OnceEach(decided, p - 1).store, s[j].o).result
    BY <1>5, <1>7 DEF PointIs
  <2>2. p \in 1 .. N /\ p - 1 \in 0 .. N
    BY <1>1, <1>6, <2>1
  <2> HIDE DEF p
  <2>3. decided[p].o = s[j].o
    BY <2>1, CommandIs
  <2>4. S[p - 1] = OnceEach(decided, p - 1).store
    BY <1>4, <2>2
  <2>5. S[p] = Execute(S[p - 1], s[j].o).store
    BY <1>4, <2>1, <2>2, <2>3
  <2>6. /\ RefStore(S[p - 1], s[j].o) = Execute(S[p - 1], s[j].o).store
        /\ RefResult(S[p - 1], s[j].o) = Execute(S[p - 1], s[j].o).result
    BY <1>3, SameStores
  <2> QED
    BY <2>1, <2>2, <2>4, <2>5, <2>6 DEF p
<1>8. ASSUME NEW j \in 1 .. L, ~Logged(s[j])
      PROVE  /\ RefResult(S[q[j]], s[j].o) = s[j].observed
             /\ RefStore(S[q[j]], s[j].o) = S[q[j]]
  <2>1. s[j].o.op = "get"
    BY <1>8 DEF Logged
  <2>2. s[j].observed = S[q[j]][s[j].o.key]
    BY <1>4, <1>5, <1>6, <1>8 DEF PointIs
  <2>3. ~RefTakes(S[q[j]], s[j].o)
    BY <2>1 DEF RefTakes
  <2> QED
    BY <2>1, <2>2, <2>3 DEF RefResult, RefStore
<1>9. ASSUME NEW i \in 1 .. L, NEW j \in 1 .. L, Logged(s[i]), Logged(s[j]), q[i] = q[j]
      PROVE  i = j
  <2>1. Command(s[i]) = Command(s[j])
    BY <1>7, <1>9
  <2>2. f[i] = f[j]
    <3>1. /\ history[f[i]].client = history[f[j]].client
          /\ history[f[i]].req = history[f[j]].req
      BY <1>2, <2>1, CommandIs
    <3> DEFINE a == f[i]
               b == f[j]
    <3>2. a \in DOMAIN history /\ b \in DOMAIN history
      BY <1>3
    <3> HIDE DEF a, b
    <3>3. a = b
      BY <1>1, <3>1, <3>2, RowUnique DEF a, b
    <3> QED
      BY <3>3 DEF a, b
  <2>3. ~(i < j) /\ ~(j < i)
    BY <1>2, <1>3, <2>2
  <2> QED
    BY <1>3, <2>3
<1>10. ASSUME NEW k \in 1 .. N, First(decided, k)
       PROVE  \E w \in 1 .. L : Logged(s[w]) /\ q[w] = k
  <2>1. PICK a \in DOMAIN history :
          decided[k] = Command(history[a]) /\ Logged(history[a]) /\ Completed(history[a])
    BY DEF SInv, KnownRows, N
  <2>2. PICK w \in 1 .. L : f[w] = a
    BY <1>2, <2>1
  <2>3. s[w] = history[a] /\ Logged(s[w])
    BY <1>2, <2>1, <2>2
  <2> DEFINE p == q[w]
  <2>4. p \in 1 .. N /\ First(decided, p) /\ decided[p] = decided[k]
    BY <1>7, <2>1, <2>3
  <2> HIDE DEF p
  <2>5. p = k
    BY <1>1, <1>10, <2>4, FirstUnique DEF N
  <2> QED
    BY <2>3, <2>5 DEF p
<1>11. ASSUME NEW i \in 1 .. L, NEW j \in 1 .. L, s[i].returned < s[j].invoked
       PROVE  i < j /\ q[i] <= q[j] /\ (q[i] = q[j] => ~Logged(s[j]))
  <2> DEFINE a == f[i]
             b == f[j]
  <2>1. /\ a \in DOMAIN history /\ b \in DOMAIN history /\ a \in Nat /\ b \in Nat
        /\ s[i] = history[a] /\ s[j] = history[b]
        /\ Completed(history[a]) /\ Completed(history[b])
        /\ q[i] = pt[a] /\ q[j] = pt[b]
    BY <1>2, <1>3
  <2>2. j < i => b < a
    BY <1>2
  <2>3. i = j => a = b
    OBVIOUS
  <2> HIDE DEF a, b
  <2>4. Before(history[a], history[b])
    BY <1>11, <2>1 DEF Before
  <2>5. a < b
    <3>1. history[a].returned \in a .. Len(history) /\ history[b].invoked = b
      BY <2>1 DEF Timed
    <3>2. Len(history) \in Nat
      BY <1>1
    <3> QED
      BY <1>11, <2>1, <3>1, <3>2
  <2>6. i < j
    BY <1>3, <2>1, <2>2, <2>3, <2>5
  <2> QED
    BY <2>1, <2>4, <2>6 DEF Points
<1>12. W \subseteq DOMAIN s /\ \A j \in 1 .. L : j \in W <=> Logged(s[j])
  BY <1>3
<1> HIDE DEF W
<1>13. \A k \in 1 .. N : S[k] = S[k - 1] \/ \E w \in W : q[w] = k
  BY <1>4, <1>10, <1>12
<1>14. Pointed(s, N, S, q, W)
  BY <1>3, <1>6, <1>7, <1>8, <1>9, <1>11, <1>12, <1>13 DEF Pointed
<1>15. Completable(s, S[0], DOMAIN s)
  BY <1>1, <1>2, <1>14, PointsComplete
<1> QED
  BY <1>4, <1>15

\* Ordered holds at first.
LEMMA OrderedInit == Init => Ordered
<1> SUFFICES ASSUME Init PROVE Ordered
  OBVIOUS
<1>1. /\ history = <<>> /\ reads = {} /\ verdict = "none"
  BY DEF Init, ServiceInit, OracleInit
<1>2. DOMAIN history = {}
  BY <1>1
<1>3. Points(history, decided, reads, <<>>)
  BY <1>1, <1>2 DEF Points
<1>4. LInv
  BY <1>2, <1>3 DEF LInv, Timed
<1> QED
  BY <1>1, <1>4 DEF Ordered

\* A run that stops leaves a history that can be ordered.
LEMMA StopOrdered ==
    ASSUME SInv, Ordered, StopAndCheck
    PROVE  Ordered'
<1>1. /\ mode' = mode /\ verdict = "none" /\ verdict' # "none"
      /\ ops' = Completions(history)
  BY DEF StopAndCheck, Start
<1>2. ASSUME mode # "stale" PROVE Completable(ops', EmptyStore, DOMAIN ops')
  <2>1. Timed(history)
    BY <1>1 DEF Ordered, LInv
  <2>2. PICK pt : Points(history, decided, reads, pt)
    BY <1>1, <1>2 DEF Ordered, LInv
  <2>3. history \in Seq(Rows)
    BY SInvTypes
  <2> DEFINE s == Completions(history)
  <2>4. PICK f : Embeds(history, Len(history), s, f)
    BY <2>3, CompletionsEmbed
  <2> HIDE DEF s
  <2>5. Completable(s, EmptyStore, DOMAIN s)
    BY <2>1, <2>2, <2>4, LogOrders
  <2> QED
    BY <1>1, <2>5 DEF s
<1>3. Completable(ops, EmptyStore, DOMAIN ops)' <=> Completable(ops', EmptyStore, DOMAIN ops')
  BY DEF Completable, Completes
<1> QED
  BY <1>1, <1>2, <1>3 DEF Ordered

\* Ordered is inductive.
LEMMA OrderedStep ==
    SInv /\ SInv' /\ AllDecided /\ Ordered /\ [Next]_vars => Ordered'
<1> SUFFICES ASSUME SInv, SInv', AllDecided, Ordered, [Next]_vars PROVE Ordered'
  OBVIOUS
<1>1. CASE verdict = "none" /\ ServiceNext /\ UNCHANGED oracleVars
  <2>1. LInv
    BY <1>1 DEF Ordered
  <2>2. LInv'
    BY <1>1, <2>1, ServiceL
  <2> QED
    BY <1>1, <2>2 DEF Ordered, oracleVars
<1>2. CASE StopAndCheck
  BY <1>2, StopOrdered
<1>3. CASE Search /\ UNCHANGED serviceVars
  <2>1. /\ verdict = "searching" /\ verdict' # "none" /\ mode' = mode
        /\ ops' = ops
    BY <1>3, SearchIs DEF serviceVars, Search, Accept, Backtrack, Mismatch, DeadEnd, Place
  <2>2. Completable(ops, EmptyStore, DOMAIN ops)' <=> Completable(ops, EmptyStore, DOMAIN ops)
    BY <2>1 DEF Completable, Completes
  <2> QED
    BY <2>1, <2>2 DEF Ordered
<1>4. CASE UNCHANGED vars
  <2>1. UNCHANGED <<mode, history, decided, reads, verdict, ops>>
    BY <1>4 DEF vars, serviceVars, clusterVars, oracleVars
  <2>2. LInv => LInv'
    BY <2>1, PointsFewer
  <2>3. Completable(ops, EmptyStore, DOMAIN ops)' <=> Completable(ops, EmptyStore, DOMAIN ops)
    BY <2>1 DEF Completable, Completes
  <2> QED
    BY <2>1, <2>2, <2>3 DEF Ordered
<1> QED
  BY <1>1, <1>2, <1>3, <1>4 DEF Next

\* The history of a run is linearizable, with reads through the log and with
\* ReadIndex reads: check never calls it illegal (README: "the history clients
\* observe is linearizable").
THEOREM CorrectRunsAlwaysPass == Spec => []CorrectRunsPass
<1>1. Ordered /\ CInv => CorrectRunsPass
  BY DEF Ordered, CInv, CorrectRunsPass
<1> QED
  BY <1>1, OrderedInit, OrderedStep, ServiceInitOK, ServiceStepOK, InitOK, StepOK, InitC, StepC,
     PTL DEF Spec
=============================================================================
