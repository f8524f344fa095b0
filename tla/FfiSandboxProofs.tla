--------------------------- MODULE FfiSandboxProofs ---------------------------
(***************************************************************************)
(* Proofs about FfiSandbox: for any number of threads, of calls, of their  *)
(* arguments and of libraries that call back.                              *)
(***************************************************************************)
EXTENDS FfiSandbox, TLAPS, FiniteSetTheorems, SequenceTheorems

-----------------------------------------------------------------------------
(* The inductive invariant *)

CallStages == {"in", "library", "callback", "out"}

\* What a library may be given for a pointer.
Given == {Raw, NullGiven, Gone} \cup
         [kind : {"copy"}, data : UNION {[Window(a) -> Values] : a \in Args}, canary : BOOLEAN]

CallType == [args : Seq(Args), given : Seq(Given), stage : CallStages, next : Nat]

\* Copies are of what is to be passed; there are none before ffi_sandbox_in and after
\* ffi_sandbox_out have come to them.
CallOK(call) ==
    /\ Len(call.given) = Len(call.args)
    /\ call.next \in 1 .. Len(call.args) + 1
    /\ \A j \in 1 .. Len(call.given) : call.given[j].kind = "copy" =>
          /\ call.given[j].data \in [Window(call.args[j]) -> Values]
          /\ call.stage = "in" => j < call.next
          /\ call.stage = "out" => j >= call.next

StackOK == calls \in [Threads -> Seq(CallType)]

CallsOK ==
    \A t \in Threads : \A i \in 1 .. Depth(t) :
        /\ CallOK(calls[t][i])
        /\ i # Depth(t) => calls[t][i].stage = "callback"

DataOK ==
    /\ memory \in [Cells -> Values]
    /\ in_ffi_call \in BOOLEAN
    /\ begun \in 0 .. MaxCalls
    /\ process \in {"up", "overrun", "library fault", "stack overflow"}

MappedOK == IsFiniteSet(Copies) /\ MappingsHeld

FfiInv == StackOK /\ CallsOK /\ DataOK /\ FlagClearWhenIdle /\ MappedOK

-----------------------------------------------------------------------------
(* The stacks of calls *)

LEMMA TopFacts ==
    ASSUME StackOK, NEW t \in Threads, Depth(t) > 0
    PROVE  /\ Depth(t) \in 1 .. Depth(t) /\ Top(t) = calls[t][Depth(t)]
           /\ Top(t) \in CallType
BY DEF StackOK, Depth, Top, Last

LEMMA CallTyped ==
    ASSUME StackOK, NEW t \in Threads, NEW i \in 1 .. Depth(t)
    PROVE  calls[t][i] \in CallType
<1>1. calls[t] \in Seq(CallType) /\ i \in 1 .. Len(calls[t])
  BY DEF StackOK, Depth
<1>2. QED
  BY <1>1

LEMMA EntrySet ==
    ASSUME NEW S, NEW s \in Seq(S), NEW j \in 1 .. Len(s), NEW g \in S
    PROVE  /\ [s EXCEPT ![j] = g] \in Seq(S) /\ Len([s EXCEPT ![j] = g]) = Len(s)
           /\ [s EXCEPT ![j] = g][j] = g
           /\ \A k \in 1 .. Len(s) : k # j => [s EXCEPT ![j] = g][k] = s[k]
OBVIOUS

LEMMA AfterSet ==
    ASSUME StackOK, NEW t \in Threads, Depth(t) > 0, NEW call \in CallType, SetTop(t, call)
    PROVE  /\ StackOK'
           /\ \A u \in Threads :
                 /\ Depth(u)' = Depth(u)
                 /\ \A i \in 1 .. Depth(u) :
                       calls'[u][i] = IF u = t /\ i = Depth(t) THEN call ELSE calls[u][i]
<1>1. calls \in [Threads -> Seq(CallType)] /\ Len(calls[t]) \in 1 .. Len(calls[t])
  BY DEF StackOK, Depth
<1>2. calls' = [calls EXCEPT ![t] = [calls[t] EXCEPT ![Len(calls[t])] = call]]
  BY DEF SetTop, Depth
<1>3. /\ [calls[t] EXCEPT ![Len(calls[t])] = call] \in Seq(CallType)
      /\ Len([calls[t] EXCEPT ![Len(calls[t])] = call]) = Len(calls[t])
      /\ \A i \in 1 .. Len(calls[t]) :
            [calls[t] EXCEPT ![Len(calls[t])] = call][i] = IF i = Len(calls[t]) THEN call ELSE calls[t][i]
  BY <1>1
<1>4. QED
  BY <1>1, <1>2, <1>3 DEF StackOK, Depth

LEMMA AfterAppend ==
    ASSUME StackOK, NEW t \in Threads, NEW call \in CallType,
           calls' = [calls EXCEPT ![t] = Append(@, call)]
    PROVE  /\ StackOK'
           /\ \A u \in Threads :
                 /\ Depth(u)' = IF u = t THEN Depth(t) + 1 ELSE Depth(u)
                 /\ \A i \in 1 .. Depth(u) : calls'[u][i] = calls[u][i]
           /\ calls'[t][Depth(t) + 1] = call
<1>1. calls \in [Threads -> Seq(CallType)] /\ Len(calls[t]) \in Nat
  BY DEF StackOK
<1>2. /\ Append(calls[t], call) \in Seq(CallType)
      /\ Len(Append(calls[t], call)) = Len(calls[t]) + 1
      /\ Append(calls[t], call)[Len(calls[t]) + 1] = call
      /\ \A i \in 1 .. Len(calls[t]) : Append(calls[t], call)[i] = calls[t][i]
  BY <1>1
<1>3. QED
  BY <1>1, <1>2 DEF StackOK, Depth

LEMMA AfterFront ==
    ASSUME StackOK, NEW t \in Threads, Depth(t) > 0, calls' = [calls EXCEPT ![t] = Front(@)]
    PROVE  /\ StackOK'
           /\ \A u \in Threads :
                 /\ Depth(u)' = IF u = t THEN Depth(t) - 1 ELSE Depth(u)
                 /\ \A i \in 1 .. Depth(u)' :
                       /\ i \in 1 .. Depth(u) /\ (u = t => i # Depth(t))
                       /\ calls'[u][i] = calls[u][i]
<1>1. calls \in [Threads -> Seq(CallType)] /\ Len(calls[t]) \in Nat \ {0}
  BY DEF StackOK, Depth
<1>2. calls' = [calls EXCEPT ![t] = SubSeq(calls[t], 1, Len(calls[t]) - 1)]
  BY DEF Front
<1>3. /\ SubSeq(calls[t], 1, Len(calls[t]) - 1) \in Seq(CallType)
      /\ Len(SubSeq(calls[t], 1, Len(calls[t]) - 1)) = Len(calls[t]) - 1
      /\ \A i \in 1 .. Len(calls[t]) - 1 :
            SubSeq(calls[t], 1, Len(calls[t]) - 1)[i] = calls[t][i]
  <2>1. PICK s : s = calls[t]
    OBVIOUS
  <2>2. PICK n \in Int : n = Len(calls[t]) - 1
    <3>1. Len(calls[t]) - 1 \in Int
      BY <1>1
    <3>2. QED
      BY <3>1
  <2>3. \A i \in 1 .. n : s[i] \in CallType
    BY <1>1, <2>2, <2>1
  <2>4. /\ SubSeq(s, 1, n) \in Seq(CallType)
        /\ Len(SubSeq(s, 1, n)) = IF 1 <= n THEN n - 1 + 1 ELSE 0
        /\ \A i \in 1 .. n - 1 + 1 : SubSeq(s, 1, n)[i] = s[1 + i - 1]
    BY <2>3, 1 \in Int, SubSeqProperties
  <2>5. n \in Nat
    BY <1>1, <2>2
  <2>6. QED
    BY <2>2, <2>1, <2>4, <2>5
<1>4. PICK s : s = SubSeq(calls[t], 1, Len(calls[t]) - 1)
  OBVIOUS
<1>5. /\ s \in Seq(CallType) /\ Len(s) = Len(calls[t]) - 1
      /\ \A i \in 1 .. Len(calls[t]) - 1 : s[i] = calls[t][i]
      /\ calls' = [calls EXCEPT ![t] = s]
  BY <1>2, <1>3, <1>4
<1>6. QED
  BY <1>1, <1>5 DEF StackOK, Depth

-----------------------------------------------------------------------------
(* The copies *)

IsCopy(t, i, j) ==
    i \in 1 .. Depth(t) /\ j \in 1 .. Len(calls[t][i].given) /\ calls[t][i].given[j].kind = "copy"

CopyAt(t, i, j) == [of |-> <<<<t, i>>, j>>, data |-> calls[t][i].given[j].data]

CopiesByPlace ==
    \A d : d \in Copies <=>
       \E t \in Threads, i \in Nat, j \in Nat : IsCopy(t, i, j) /\ d = CopyAt(t, i, j)

LEMMA CopiesAre == StackOK => CopiesByPlace
<1> SUFFICES ASSUME StackOK, NEW d
             PROVE  d \in Copies <=>
                       \E t \in Threads, i \in Nat, j \in Nat : IsCopy(t, i, j) /\ d = CopyAt(t, i, j)
  BY DEF CopiesByPlace
<1> DEFINE Of(f) == LET call == calls[f[1]][f[2]]
                    IN  {[of |-> <<f, j>>, data |-> call.given[j].data] :
                            j \in {k \in DOMAIN call.given : call.given[k].kind = "copy"}}
<1>1. d \in Copies <=> \E f \in Frames : d \in Of(f)
  BY DEF Copies
<1>2. \A f : f \in Frames <=> \E t \in Threads : \E i \in 1 .. Depth(t) : f = <<t, i>>
  BY DEF Frames
<1>3. \A t \in Threads : \A i \in 1 .. Depth(t) :
         d \in Of(<<t, i>>) <=> \E j \in Nat : IsCopy(t, i, j) /\ d = CopyAt(t, i, j)
  <2> SUFFICES ASSUME NEW t \in Threads, NEW i \in 1 .. Depth(t)
               PROVE  d \in Of(<<t, i>>) <=> \E j \in Nat : IsCopy(t, i, j) /\ d = CopyAt(t, i, j)
    OBVIOUS
  <2>1. DOMAIN calls[t][i].given = 1 .. Len(calls[t][i].given) /\ Len(calls[t][i].given) \in Nat
    BY CallTyped DEF CallType
  <2>2. d \in Of(<<t, i>>) <=>
           \E j \in DOMAIN calls[t][i].given :
              /\ calls[t][i].given[j].kind = "copy"
              /\ d = [of |-> <<<<t, i>>, j>>, data |-> calls[t][i].given[j].data]
    OBVIOUS
  <2>3. QED
    BY <2>1, <2>2 DEF IsCopy, CopyAt
<1> HIDE DEF Of
<1>4. \A t \in Threads : Depth(t) \in Nat
  BY DEF StackOK, Depth
<1>5. d \in Copies <=> \E t \in Threads : \E i \in 1 .. Depth(t) : d \in Of(<<t, i>>)
  BY <1>1, <1>2
<1>6. \A t \in Threads : \A i \in Nat : \A j : IsCopy(t, i, j) => i \in 1 .. Depth(t)
  BY DEF IsCopy
<1>7. \A t \in Threads : \A i \in 1 .. Depth(t) : i \in Nat
  BY <1>4
<1>8. ASSUME d \in Copies
      PROVE  \E t \in Threads, i \in Nat, j \in Nat : IsCopy(t, i, j) /\ d = CopyAt(t, i, j)
  BY <1>3, <1>5, <1>7, <1>8
<1>9. ASSUME NEW t \in Threads, NEW i \in Nat, NEW j \in Nat, IsCopy(t, i, j), d = CopyAt(t, i, j)
      PROVE  d \in Copies
  <2>1. i \in 1 .. Depth(t)
    BY <1>6, <1>9
  <2>2. d \in Of(<<t, i>>)
    BY <1>3, <1>9, <2>1
  <2>3. QED
    BY <1>5, <2>1, <2>2
<1>10. QED
  BY <1>8, <1>9

LEMMA SameGiven ==
    ASSUME NEW u \in Threads, NEW i, NEW j, Depth(u)' = Depth(u),
           calls'[u][i].given = calls[u][i].given
    PROVE  /\ IsCopy(u, i, j)' <=> IsCopy(u, i, j)
           /\ CopyAt(u, i, j)' = CopyAt(u, i, j)
BY DEF IsCopy, CopyAt

\* A step within the innermost call of t that changes at most the j-th given pointer.
LEMMA SetCopies ==
    ASSUME StackOK, NEW t \in Threads, Depth(t) > 0, NEW call \in CallType, SetTop(t, call),
           NEW j \in 1 .. Len(Top(t).given), NEW g,
           call.given = [Top(t).given EXCEPT ![j] = g]
    PROVE  \A d : d \in Copies' <=>
              \/ d \in Copies /\ d.of # <<<<t, Depth(t)>>, j>>
              \/ g.kind = "copy" /\ d = [of |-> <<<<t, Depth(t)>>, j>>, data |-> g.data]
<1>1. CopiesByPlace /\ CopiesByPlace'
  <2>1. StackOK'
    BY AfterSet
  <2>2. CopiesByPlace
    BY CopiesAre
  <2>3. CopiesByPlace'
    BY <2>1, CopiesAre, PTL
  <2>4. QED
    BY <2>2, <2>3
<1>2. /\ Depth(t) \in 1 .. Depth(t) /\ Top(t) = calls[t][Depth(t)] /\ Top(t) \in CallType
      /\ Depth(t) \in Nat
  BY TopFacts DEF StackOK, Depth
<1>3. /\ Top(t).given \in Seq(Given) /\ Len(call.given) = Len(Top(t).given)
      /\ j \in Nat
      /\ call.given[j] = g
      /\ \A k \in 1 .. Len(call.given) : k # j => call.given[k] = Top(t).given[k]
  <2>1. PICK s \in Seq(Given) : s = Top(t).given
    BY <1>2 DEF CallType
  <2>2. call.given = [s EXCEPT ![j] = g] /\ j \in 1 .. Len(s)
    BY <2>1
  <2>3. call.given \in Seq(Given)
    BY DEF CallType
  <2>4. Len(call.given) = Len(s)
    <3>1. DOMAIN call.given = DOMAIN s
      BY <2>2
    <3>2. QED
      BY <2>1, <2>3, <3>1
  <2>5. QED
    BY <2>1, <2>2, <2>4
<1>4. \A u \in Threads : Depth(u)' = Depth(u) /\ \A i \in 1 .. Depth(u) :
         calls'[u][i] = IF u = t /\ i = Depth(t) THEN call ELSE calls[u][i]
  BY AfterSet
<1>5. \A u \in Threads, i \in Nat, k \in Nat : u # t \/ i # Depth(t) \/ k # j =>
         /\ IsCopy(u, i, k)' <=> IsCopy(u, i, k)
         /\ IsCopy(u, i, k) => CopyAt(u, i, k)' = CopyAt(u, i, k)
  <2> SUFFICES ASSUME NEW u \in Threads, NEW i \in Nat, NEW k \in Nat, u # t \/ i # Depth(t) \/ k # j
               PROVE  /\ IsCopy(u, i, k)' <=> IsCopy(u, i, k)
                      /\ IsCopy(u, i, k) => CopyAt(u, i, k)' = CopyAt(u, i, k)
    OBVIOUS
  <2>1. CASE u = t /\ i = Depth(t)
    <3>1. calls'[u][i] = call /\ calls[u][i] = Top(t) /\ Depth(u)' = Depth(u)
      BY <1>2, <1>4, <2>1
    <3>2. /\ k \in 1 .. Len(call.given) <=> k \in 1 .. Len(Top(t).given)
          /\ k \in 1 .. Len(call.given) => call.given[k] = Top(t).given[k]
      BY <1>3, <2>1
    <3>3. QED
      BY <3>1, <3>2 DEF IsCopy, CopyAt
  <2>2. CASE u # t \/ i # Depth(t)
    <3>1. CASE i \in 1 .. Depth(u)
      BY <1>4, <2>2, <3>1, SameGiven
    <3>2. CASE i \notin 1 .. Depth(u)
      BY <1>4, <3>2 DEF IsCopy
    <3>3. QED
      BY <3>1, <3>2
  <2>3. QED
    BY <2>1, <2>2
<1>6. PICK n \in Nat : n = Depth(t)
  BY <1>2
<1>7. /\ IsCopy(t, n, j)' <=> g.kind = "copy"
      /\ CopyAt(t, n, j)' = [of |-> <<<<t, n>>, j>>, data |-> g.data]
  <2>1. calls'[t][n] = call /\ Depth(t)' = n
    BY <1>2, <1>4, <1>6
  <2>2. QED
    BY <1>2, <1>3, <1>6, <2>1 DEF IsCopy, CopyAt
<1>8. \A u \in Threads, i \in Nat, k \in Nat :
         CopyAt(u, i, k).of = <<<<t, n>>, j>> <=> u = t /\ i = n /\ k = j
  BY DEF CopyAt
<1>9. ASSUME NEW d, d \in Copies'
      PROVE  \/ d \in Copies /\ d.of # <<<<t, n>>, j>>
             \/ g.kind = "copy" /\ d = [of |-> <<<<t, n>>, j>>, data |-> g.data]
  <2>1. PICK u \in Threads, i \in Nat, k \in Nat : IsCopy(u, i, k)' /\ d = CopyAt(u, i, k)'
    BY <1>1, <1>9 DEF CopiesByPlace
  <2>2. CASE u = t /\ i = n /\ k = j
    BY <1>7, <2>1, <2>2
  <2>3. CASE u # t \/ i # n \/ k # j
    <3>1. IsCopy(u, i, k) /\ d = CopyAt(u, i, k)
      BY <1>5, <1>6, <2>1, <2>3
    <3>2. QED
      BY <1>1, <1>8, <2>3, <3>1 DEF CopiesByPlace
  <2>4. QED
    BY <2>2, <2>3
<1>10. ASSUME NEW d, d \in Copies, d.of # <<<<t, n>>, j>> PROVE d \in Copies'
  <2>1. PICK u \in Threads, i \in Nat, k \in Nat : IsCopy(u, i, k) /\ d = CopyAt(u, i, k)
    BY <1>1, <1>10 DEF CopiesByPlace
  <2>2. u # t \/ i # n \/ k # j
    BY <1>8, <1>10, <2>1
  <2>3. IsCopy(u, i, k)' /\ d = CopyAt(u, i, k)'
    BY <1>5, <1>6, <2>1, <2>2
  <2>4. QED
    BY <1>1, <2>3 DEF CopiesByPlace
<1>11. ASSUME NEW d, g.kind = "copy", d = [of |-> <<<<t, n>>, j>>, data |-> g.data] PROVE d \in Copies'
  BY <1>1, <1>3, <1>7, <1>11 DEF CopiesByPlace
<1>12. QED
  BY <1>6, <1>9, <1>10, <1>11

\* If every place has what it had, there are the same copies.
LEMMA SameCopies ==
    ASSUME StackOK, StackOK',
           \A t \in Threads, i \in Nat, j \in Nat :
              /\ IsCopy(t, i, j)' <=> IsCopy(t, i, j)
              /\ IsCopy(t, i, j) => CopyAt(t, i, j)' = CopyAt(t, i, j)
    PROVE  Copies' = Copies
<1>1. CopiesByPlace
  BY CopiesAre
<1>2. CopiesByPlace'
  BY CopiesAre, PTL
<1>3. \A d : d \in Copies' <=> d \in Copies
  BY <1>1, <1>2 DEF CopiesByPlace
<1>4. QED
  BY <1>3

LEMMA StageCopies ==
    ASSUME StackOK, NEW t \in Threads, Depth(t) > 0, NEW call \in CallType, SetTop(t, call),
           call.given = Top(t).given
    PROVE  Copies' = Copies
<1>1. StackOK' /\ \A u \in Threads : Depth(u)' = Depth(u) /\ \A i \in 1 .. Depth(u) :
         calls'[u][i] = IF u = t /\ i = Depth(t) THEN call ELSE calls[u][i]
  BY AfterSet
<1>2. Top(t) = calls[t][Depth(t)]
  BY TopFacts
<1>3. \A u \in Threads : \A i \in 1 .. Depth(u) : calls'[u][i].given = calls[u][i].given
  BY <1>1, <1>2
<1>4. \A u \in Threads, i \in Nat, j \in Nat :
              /\ IsCopy(u, i, j)' <=> IsCopy(u, i, j)
              /\ IsCopy(u, i, j) => CopyAt(u, i, j)' = CopyAt(u, i, j)
  <2> SUFFICES ASSUME NEW u \in Threads, NEW i \in Nat, NEW j \in Nat
               PROVE  /\ IsCopy(u, i, j)' <=> IsCopy(u, i, j)
                      /\ IsCopy(u, i, j) => CopyAt(u, i, j)' = CopyAt(u, i, j)
    OBVIOUS
  <2>1. CASE i \in 1 .. Depth(u)
    BY <1>1, <1>3, <2>1, SameGiven
  <2>2. CASE i \notin 1 .. Depth(u)
    BY <1>1, <2>2 DEF IsCopy
  <2>3. QED
    BY <2>1, <2>2
<1>5. QED
  BY <1>1, <1>4, SameCopies

LEMMA AppendCopies ==
    ASSUME StackOK, NEW t \in Threads, NEW call \in CallType,
           calls' = [calls EXCEPT ![t] = Append(@, call)],
           \A j \in 1 .. Len(call.given) : call.given[j].kind # "copy"
    PROVE  Copies' = Copies
<1>1. /\ StackOK'
      /\ \A u \in Threads :
            /\ Depth(u)' = IF u = t THEN Depth(t) + 1 ELSE Depth(u)
            /\ \A i \in 1 .. Depth(u) : calls'[u][i] = calls[u][i]
      /\ calls'[t][Depth(t) + 1] = call
  BY AfterAppend
<1>2. \A u \in Threads : Depth(u) \in Nat
  BY DEF StackOK, Depth
<1>3. ASSUME NEW u \in Threads, NEW i \in Nat, NEW j \in Nat
      PROVE  /\ IsCopy(u, i, j)' <=> IsCopy(u, i, j)
             /\ IsCopy(u, i, j) => CopyAt(u, i, j)' = CopyAt(u, i, j)
  <2>1. CASE u = t /\ i = Depth(t) + 1
    BY <1>1, <1>2, <2>1 DEF IsCopy
  <2>2. CASE u # t \/ i # Depth(t) + 1
    <3>1. i \in 1 .. Depth(u)' <=> i \in 1 .. Depth(u)
      BY <1>1, <1>2, <2>2
    <3>2. QED
      BY <1>1, <3>1 DEF IsCopy, CopyAt
  <2>3. QED
    BY <2>1, <2>2
<1>4. QED
  BY <1>1, <1>3, SameCopies

LEMMA FrontCopies ==
    ASSUME StackOK, NEW t \in Threads, Depth(t) > 0, calls' = [calls EXCEPT ![t] = Front(@)],
           \A j \in 1 .. Len(Top(t).given) : Top(t).given[j].kind # "copy"
    PROVE  Copies' = Copies
<1>1. /\ StackOK'
      /\ \A u \in Threads :
            /\ Depth(u) \in Nat /\ Depth(u)' = IF u = t THEN Depth(t) - 1 ELSE Depth(u)
            /\ \A i \in 1 .. Depth(u)' : calls'[u][i] = calls[u][i]
  <2>1. \A u \in Threads : Depth(u) \in Nat
    BY DEF StackOK, Depth
  <2>2. QED
    BY <2>1, AfterFront
<1>2. Top(t) = calls[t][Depth(t)]
  BY TopFacts
<1>3. ASSUME NEW u \in Threads, NEW i \in Nat, NEW j \in Nat
      PROVE  /\ IsCopy(u, i, j)' <=> IsCopy(u, i, j)
             /\ IsCopy(u, i, j) => CopyAt(u, i, j)' = CopyAt(u, i, j)
  <2>1. CASE u = t /\ i = Depth(t)
    BY <1>1, <1>2, <2>1 DEF IsCopy
  <2>2. CASE u # t \/ i # Depth(t)
    <3>1. i \in 1 .. Depth(u)' <=> i \in 1 .. Depth(u)
      BY <1>1, <2>2
    <3>2. QED
      BY <1>1, <3>1 DEF IsCopy, CopyAt
  <2>3. QED
    BY <2>1, <2>2
<1>4. QED
  BY <1>1, <1>3, SameCopies

-----------------------------------------------------------------------------
(* The flag *)

Busy == {"library", "callback"}

FlagOK == in_ffi_call => \E t \in Threads : \E i \in 1 .. Depth(t) : calls[t][i].stage \in Busy

LEMMA FlagIs == FlagClearWhenIdle <=> FlagOK
<1>1. \A f : f \in Frames <=> \E t \in Threads : \E i \in 1 .. Depth(t) : f = <<t, i>>
  BY DEF Frames
<1>2. (\E f \in Frames : calls[f[1]][f[2]].stage \in Busy)
         <=> \E t \in Threads : \E i \in 1 .. Depth(t) : calls[t][i].stage \in Busy
  <2>1. ASSUME NEW f \in Frames, calls[f[1]][f[2]].stage \in Busy
        PROVE  \E t \in Threads : \E i \in 1 .. Depth(t) : calls[t][i].stage \in Busy
    <3>1. PICK t \in Threads : \E i \in 1 .. Depth(t) : f = <<t, i>>
      BY <1>1, <2>1
    <3>2. PICK i \in 1 .. Depth(t) : f = <<t, i>>
      BY <3>1
    <3>3. f[1] = t /\ f[2] = i
      BY <3>2
    <3>4. QED
      BY <2>1, <3>3
  <2>2. ASSUME NEW t \in Threads, NEW i \in 1 .. Depth(t), calls[t][i].stage \in Busy
        PROVE  \E f \in Frames : calls[f[1]][f[2]].stage \in Busy
    <3>1. PICK f : f = <<t, i>>
      OBVIOUS
    <3>2. f \in Frames
      BY <1>1, <3>1
    <3>3. f[1] = t /\ f[2] = i
      BY <3>1
    <3>4. QED
      BY <2>2, <3>2, <3>3
  <2>3. QED
    BY <2>1, <2>2
<1>3. QED
  BY <1>2 DEF FlagClearWhenIdle, FlagOK, Busy

\* Only ffi_enter sets the flag, and a call it has set it for is busy until ffi_leave.
LEMMA SetFlag ==
    ASSUME StackOK, FlagOK, NEW t \in Threads, Depth(t) > 0, NEW call \in CallType, SetTop(t, call),
           \/ ~in_ffi_call'
           \/ call.stage \in Busy
           \/ in_ffi_call' = in_ffi_call /\ Top(t).stage \notin Busy
    PROVE  FlagOK'
<1>1. Depth(t) \in 1 .. Depth(t) /\ Top(t) = calls[t][Depth(t)]
  BY TopFacts
<1>2. \A u \in Threads : Depth(u)' = Depth(u) /\ \A i \in 1 .. Depth(u) :
         calls'[u][i] = IF u = t /\ i = Depth(t) THEN call ELSE calls[u][i]
  BY AfterSet
<1>3. QED
  BY <1>1, <1>2 DEF FlagOK

-----------------------------------------------------------------------------
(* The calls *)

LEMMA SetCallsOK ==
    ASSUME StackOK, CallsOK, NEW t \in Threads, Depth(t) > 0, NEW call \in CallType,
           SetTop(t, call), CallOK(call)
    PROVE  StackOK' /\ CallsOK'
<1>1. StackOK' /\ \A u \in Threads : Depth(u)' = Depth(u) /\ \A i \in 1 .. Depth(u) :
         calls'[u][i] = IF u = t /\ i = Depth(t) THEN call ELSE calls[u][i]
  BY AfterSet
<1>2. QED
  BY <1>1 DEF CallsOK

\* The innermost call goes on, with what it has been given.
LEMMA StageKeeps ==
    ASSUME FfiInv, NEW t \in Threads, Depth(t) > 0, NEW stage \in CallStages, NEW next \in Nat,
           SetTop(t, [Top(t) EXCEPT !.stage = stage, !.next = next]),
           next \in 1 .. Len(Top(t).args) + 1,
           stage # "in", stage = "out" => next = 1,
           \/ ~in_ffi_call'
           \/ stage \in Busy,
           UNCHANGED <<memory, mapped, begun, process>>, in_ffi_call' \in BOOLEAN
    PROVE  FfiInv'
<1>1. StackOK /\ CallsOK /\ FlagOK /\ MappedOK /\ DataOK
  BY FlagIs DEF FfiInv
<1>2. Top(t) \in CallType /\ CallOK(Top(t))
  BY <1>1, TopFacts DEF CallsOK
<1>3. PICK call : call = [Top(t) EXCEPT !.stage = stage, !.next = next]
  OBVIOUS
<1>4. /\ call \in CallType /\ call.stage = stage /\ call.next = next
      /\ call.args = Top(t).args /\ call.given = Top(t).given
  BY <1>2, <1>3 DEF CallType
<1>5. CallOK(call)
  BY <1>2, <1>4 DEF CallOK
<1>6. SetTop(t, call)
  BY <1>3
<1>7. StackOK' /\ CallsOK'
  BY <1>1, <1>4, <1>5, <1>6, SetCallsOK
<1>8. FlagOK'
  BY <1>1, <1>4, <1>6, SetFlag
<1>9. Copies' = Copies
  BY <1>1, <1>4, <1>6, StageCopies
<1>10. MappedOK'
  BY <1>1, <1>9 DEF MappedOK, MappingsHeld
<1>11. DataOK'
  BY <1>1 DEF DataOK
<1>12. FlagClearWhenIdle'
  BY <1>8, FlagIs, PTL
<1>13. QED
  BY <1>7, <1>10, <1>11, <1>12 DEF FfiInv

\* What a library is given, or has no more, for the j-th argument: at most one copy comes,
\* goes or is written.
LEMMA GivenKeeps ==
    ASSUME StackOK, CallsOK, FlagOK, NEW t \in Threads, Depth(t) > 0, NEW j \in 1 .. Len(Top(t).given),
           NEW g \in Given, NEW n \in 1 .. Len(Top(t).args) + 1,
           SetTop(t, [Top(t) EXCEPT !.given[j] = g, !.next = n]),
           g.kind = "copy" => g.data \in [Window(Top(t).args[j]) -> Values],
           \A k \in 1 .. Len(Top(t).given) :
              (IF k = j THEN g.kind = "copy" ELSE Top(t).given[k].kind = "copy") =>
                 /\ Top(t).stage = "in" => k < n
                 /\ Top(t).stage = "out" => k >= n,
           UNCHANGED in_ffi_call
    PROVE  /\ StackOK' /\ CallsOK' /\ FlagOK'
           /\ \A d : d \in Copies' <=>
                 \/ d \in Copies /\ d.of # <<<<t, Depth(t)>>, j>>
                 \/ g.kind = "copy" /\ d = [of |-> <<<<t, Depth(t)>>, j>>, data |-> g.data]
<1>1. Top(t) \in CallType /\ CallOK(Top(t))
  BY TopFacts DEF CallsOK
<1>2. PICK call : call = [Top(t) EXCEPT !.given[j] = g, !.next = n]
  OBVIOUS
<1>3. SetTop(t, call) /\ n \in Nat
  BY <1>1, <1>2 DEF CallType
<1>4. /\ call.stage = Top(t).stage /\ call.next = n /\ call.args = Top(t).args
      /\ call.given = [Top(t).given EXCEPT ![j] = g] /\ call \in CallType
  <2>1. [Top(t).given EXCEPT ![j] = g] \in Seq(Given)
    BY <1>1, EntrySet DEF CallType
  <2>2. PICK given \in Seq(Given) : given = [Top(t).given EXCEPT ![j] = g]
    BY <2>1
  <2>3. call = [Top(t) EXCEPT !.given = given, !.next = n]
    BY <1>1, <1>2, <2>2 DEF CallType
  <2>4. /\ call.stage = Top(t).stage /\ call.next = n /\ call.args = Top(t).args
        /\ call.given = given /\ call \in CallType
    <3>1. PICK c \in CallType, m \in Nat : c = Top(t) /\ m = n
      BY <1>1, <1>3
    <3>2. call = [c EXCEPT !.given = given, !.next = m]
      BY <2>3, <3>1
    <3>3. [c EXCEPT !.given = given, !.next = m] \in CallType
      BY DEF CallType
    <3>4. QED
      BY <3>1, <3>2, <3>3 DEF CallType
  <2>5. QED
    BY <2>2, <2>4
<1>5. /\ Len(call.given) = Len(Top(t).given) /\ call.given[j] = g
      /\ \A k \in 1 .. Len(call.given) : k # j => call.given[k] = Top(t).given[k]
  BY <1>1, <1>4, EntrySet DEF CallType
<1>6. CallOK(call)
  <2>1. ASSUME NEW k \in 1 .. Len(call.given), call.given[k].kind = "copy"
        PROVE  /\ call.given[k].data \in [Window(call.args[k]) -> Values]
               /\ call.stage = "in" => k < call.next
               /\ call.stage = "out" => k >= call.next
    <3>1. CASE k = j
      BY <1>1, <1>4, <1>5, <2>1, <3>1
    <3>2. CASE k # j
      BY <1>1, <1>4, <1>5, <2>1, <3>2 DEF CallOK
    <3>3. QED
      BY <3>1, <3>2
  <2>2. Len(call.given) = Len(call.args) /\ call.next \in 1 .. Len(call.args) + 1
    BY <1>1, <1>4, <1>5 DEF CallOK
  <2>3. QED
    BY <2>1, <2>2 DEF CallOK
<1>7. StackOK' /\ CallsOK'
  BY <1>3, <1>4, <1>6, SetCallsOK
<1>8. FlagOK'
  BY <1>3, <1>4, SetFlag DEF Busy
<1>9. QED
  BY <1>3, <1>4, <1>7, <1>8, SetCopies

LEMMA GiveKeeps ==
    ASSUME StackOK, CallsOK, FlagOK, NEW t \in Threads, At(t, "in") \/ At(t, "out"), ArgumentsLeft(t),
           NEW g \in Given, Give(t, g),
           g.kind = "copy" => /\ At(t, "in")
                              /\ g.data \in [Window(Top(t).args[Top(t).next]) -> Values],
           UNCHANGED in_ffi_call
    PROVE  /\ StackOK' /\ CallsOK' /\ FlagOK'
           /\ \A d : d \in Copies' <=>
                 \/ d \in Copies /\ d.of # <<<<t, Depth(t)>>, Top(t).next>>
                 \/ g.kind = "copy" /\ d = [of |-> <<<<t, Depth(t)>>, Top(t).next>>, data |-> g.data]
<1>1. /\ Depth(t) > 0 /\ Top(t) \in CallType /\ CallOK(Top(t)) /\ Top(t).stage \in {"in", "out"}
      /\ Top(t).stage = "in" <=> At(t, "in")
  BY TopFacts DEF At, CallsOK, Top
<1>2. PICK j \in Nat : j = Top(t).next
  BY <1>1 DEF CallType
<1>3. /\ j \in 1 .. Len(Top(t).given) /\ j <= Len(Top(t).args) /\ Len(Top(t).given) \in Nat
      /\ Len(Top(t).args) = Len(Top(t).given)
  BY <1>1, <1>2 DEF CallOK, ArgumentsLeft, CallType
<1>4. SetTop(t, [Top(t) EXCEPT !.given[j] = g, !.next = j + 1]) /\ j + 1 \in 1 .. Len(Top(t).args) + 1
  <2>1. [Top(t) EXCEPT !.given[Top(t).next] = g, !.next = @ + 1]
           = [Top(t) EXCEPT !.given[j] = g, !.next = j + 1]
    BY <1>2
  <2>2. QED
    BY <1>3, <2>1 DEF Give
<1>5. \A k \in 1 .. Len(Top(t).given) :
         (IF k = j THEN g.kind = "copy" ELSE Top(t).given[k].kind = "copy") =>
            /\ Top(t).stage = "in" => k < j + 1
            /\ Top(t).stage = "out" => k >= j + 1
  BY <1>1, <1>2, <1>3 DEF CallOK
<1>6. QED
  BY <1>1, <1>2, <1>3, <1>4, <1>5, GivenKeeps

\* There is no copy yet, or no more.
LEMMA NoCopyThere ==
    ASSUME StackOK, CallsOK, NEW t \in Threads, Depth(t) > 0, Top(t).next <= Len(Top(t).args),
           Top(t).given[Top(t).next].kind # "copy"
    PROVE  \A d \in Copies : d.of # <<<<t, Depth(t)>>, Top(t).next>>
<1>1. CopiesByPlace /\ Top(t) = calls[t][Depth(t)]
  BY CopiesAre, TopFacts
<1>2. SUFFICES ASSUME NEW u \in Threads, NEW i \in Nat, NEW j \in Nat, IsCopy(u, i, j),
                      CopyAt(u, i, j).of = <<<<t, Depth(t)>>, Top(t).next>>
               PROVE  FALSE
  BY <1>1 DEF CopiesByPlace
<1>3. u = t /\ i = Depth(t) /\ j = Top(t).next
  BY <1>2 DEF CopyAt
<1>4. QED
  BY <1>1, <1>2, <1>3 DEF IsCopy

LEMMA CopyThere ==
    ASSUME StackOK, CallsOK, NEW t \in Threads, Depth(t) > 0, NEW j \in 1 .. Len(Top(t).given),
           Top(t).given[j].kind = "copy"
    PROVE  \A d : d \in Copies /\ d.of = <<<<t, Depth(t)>>, j>>
                     <=> d = [of |-> <<<<t, Depth(t)>>, j>>, data |-> Top(t).given[j].data]
<1>1. /\ CopiesByPlace /\ Top(t) = calls[t][Depth(t)] /\ Depth(t) \in 1 .. Depth(t)
      /\ Depth(t) \in Nat
  BY CopiesAre, TopFacts DEF StackOK, Depth
<1>2. IsCopy(t, Depth(t), j) /\ j \in Nat
  BY <1>1, TopFacts DEF IsCopy, CallType
<1>3. \A u \in Threads, i \in Nat, k \in Nat :
         CopyAt(u, i, k).of = <<<<t, Depth(t)>>, j>> <=> u = t /\ i = Depth(t) /\ k = j
  BY DEF CopyAt
<1>4. CopyAt(t, Depth(t), j) = [of |-> <<<<t, Depth(t)>>, j>>, data |-> Top(t).given[j].data]
  BY <1>1 DEF CopyAt
<1>5. ASSUME NEW d \in Copies, d.of = <<<<t, Depth(t)>>, j>> PROVE d = CopyAt(t, Depth(t), j)
  <2>1. PICK u \in Threads, i \in Nat, k \in Nat : IsCopy(u, i, k) /\ d = CopyAt(u, i, k)
    BY <1>1 DEF CopiesByPlace
  <2>2. QED
    BY <1>3, <1>5, <2>1
<1>6. CopyAt(t, Depth(t), j) \in Copies /\ CopyAt(t, Depth(t), j).of = <<<<t, Depth(t)>>, j>>
  BY <1>1, <1>2, <1>3 DEF CopiesByPlace
<1>7. QED
  BY <1>4, <1>5, <1>6

-----------------------------------------------------------------------------
(* Every step preserves FfiInv *)

LEMMA FfiInvFrom ==
    ASSUME StackOK, CallsOK, DataOK, FlagOK, IsFiniteSet(Copies), mapped = Cardinality(Copies)
    PROVE  FfiInv
BY FlagIs DEF FfiInv, MappedOK, MappingsHeld

LEMMA SameCount ==
    ASSUME FfiInv, StackOK', CallsOK', DataOK', FlagOK', Copies' = Copies, UNCHANGED mapped
    PROVE  FfiInv'
<1>1. (IsFiniteSet(Copies) /\ mapped = Cardinality(Copies))'
  BY DEF FfiInv, MappedOK, MappingsHeld
<1>2. QED
  BY <1>1, FfiInvFrom, PTL

LEMMA BeginCallKeeps ==
    ASSUME FfiInv, NEW t \in Threads, BeginCall(t)
    PROVE  FfiInv'
<1>1. StackOK /\ CallsOK /\ DataOK /\ FlagOK
  BY FlagIs DEF FfiInv
<1>2. PICK n \in 1 .. MaxArgs : \E args \in [1 .. n -> Args] :
         calls' = [calls EXCEPT ![t] =
             Append(@, [args |-> args, given |-> [j \in 1 .. n |-> Gone], stage |-> "in", next |-> 1])]
  BY DEF BeginCall
<1> PICK args \in [1 .. n -> Args] :
         calls' = [calls EXCEPT ![t] =
             Append(@, [args |-> args, given |-> [j \in 1 .. n |-> Gone], stage |-> "in", next |-> 1])]
  BY <1>2
<1>3. PICK given : given = [j \in 1 .. n |-> Gone]
  OBVIOUS
<1>4. PICK call : call = [args |-> args, given |-> given, stage |-> "in", next |-> 1]
  OBVIOUS
<1>5. n \in Nat /\ Gone \in Given
  BY FfiAssumption DEF Given
<1>6. args \in Seq(Args) /\ given \in Seq(Given) /\ Len(args) = n /\ Len(given) = n
      /\ \A j \in 1 .. n : given[j] = Gone
  <2>1. args \in Seq(Args) /\ Len(args) = n
    BY <1>5
  <2>2. given \in [1 .. n -> Given] /\ \A j \in 1 .. n : given[j] = Gone
    BY <1>3, <1>5
  <2>3. given \in Seq(Given) /\ Len(given) = n
    BY <1>5, <2>2
  <2>4. QED
    BY <2>1, <2>2, <2>3
<1>7. /\ call \in CallType /\ call.given = given /\ call.args = args /\ call.next = 1
      /\ calls' = [calls EXCEPT ![t] = Append(@, call)]
  BY <1>2, <1>3, <1>4, <1>6 DEF CallType, CallStages
<1>8. \A j \in 1 .. Len(call.given) : call.given[j].kind # "copy"
  BY <1>6, <1>7 DEF Gone
<1>9. CallOK(call)
  BY <1>5, <1>6, <1>7, <1>8 DEF CallOK
<1>10. /\ StackOK'
       /\ \A u \in Threads :
             /\ Depth(u)' = IF u = t THEN Depth(t) + 1 ELSE Depth(u)
             /\ \A i \in 1 .. Depth(u) : calls'[u][i] = calls[u][i]
       /\ calls'[t][Depth(t) + 1] = call
  BY <1>1, <1>7, AfterAppend
<1>11. \A u \in Threads : Depth(u) \in Nat
  BY <1>1 DEF StackOK, Depth
<1>12. CallsOK'
  <2>1. Depth(t) = 0 \/ calls[t][Depth(t)].stage = "callback"
    BY <1>1, <1>11, TopFacts DEF BeginCall, InProgram, At, Top
  <2>2. ASSUME NEW u \in Threads, NEW i \in 1 .. Depth(u)'
        PROVE  CallOK(calls'[u][i]) /\ (i # Depth(u)' => calls'[u][i].stage = "callback")
    <3>1. CASE u = t /\ i = Depth(t) + 1
      BY <1>9, <1>10, <3>1
    <3>2. CASE u # t \/ i # Depth(t) + 1
      <4>1. i \in 1 .. Depth(u) /\ calls'[u][i] = calls[u][i]
        <5>1. Depth(u)' = (IF u = t THEN Depth(t) + 1 ELSE Depth(u)) /\ Depth(u) \in Nat /\ Depth(t) \in Nat
          BY <1>10, <1>11
        <5>2. i \in 1 .. Depth(u)
          BY <2>2, <3>2, <5>1
        <5>3. QED
          BY <1>10, <5>2
      <4>2. CASE i = Depth(u)
        <5>1. CallOK(calls'[u][i])
          BY <1>1, <4>1 DEF CallsOK
        <5>2. CASE u = t
          <6>1. Depth(t) # 0
            BY <1>11, <4>1, <5>2
          <6>2. calls'[u][i].stage = "callback"
            BY <2>1, <4>1, <4>2, <5>2, <6>1
          <6>3. QED
            BY <5>1, <6>2
        <5>3. CASE u # t
          BY <1>10, <4>2, <5>1, <5>3
        <5>4. QED
          BY <5>2, <5>3
      <4>3. CASE i # Depth(u)
        BY <1>1, <4>1, <4>3 DEF CallsOK
      <4>4. QED
        BY <4>2, <4>3
    <3>3. QED
      BY <3>1, <3>2
  <2>3. QED
    BY <2>2 DEF CallsOK
<1>13. FlagOK'
  <2>1. ASSUME NEW u \in Threads, NEW i \in 1 .. Depth(u)
        PROVE  i \in 1 .. Depth(u)' /\ calls'[u][i] = calls[u][i]
    <3>1. Depth(u)' = (IF u = t THEN Depth(t) + 1 ELSE Depth(u)) /\ Depth(u) \in Nat /\ Depth(t) \in Nat
      BY <1>10, <1>11
    <3>2. i \in 1 .. Depth(u)'
      BY <3>1
    <3>3. QED
      BY <1>10, <3>2
  <2>2. QED
    BY <1>1, <2>1 DEF FlagOK, BeginCall
<1>14. DataOK'
  <2>1. MaxCalls \in Nat
    BY FfiAssumption
  <2>2. begun' = begun + 1 /\ begun < MaxCalls /\ UNCHANGED <<memory, in_ffi_call, process>>
    BY DEF BeginCall
  <2>3. begun' \in 0 .. MaxCalls
    <3>1. \A m \in Nat : \A b \in 0 .. m : b < m => b + 1 \in 0 .. m
      OBVIOUS
    <3>2. begun \in 0 .. MaxCalls
      BY <1>1 DEF DataOK
    <3>3. QED
      BY <2>1, <2>2, <3>1, <3>2
  <2>4. QED
    BY <1>1, <2>2, <2>3 DEF DataOK
<1>15. Copies' = Copies /\ UNCHANGED mapped
  BY <1>1, <1>7, <1>8, AppendCopies DEF BeginCall
<1>16. QED
  BY <1>10, <1>12, <1>13, <1>14, <1>15, SameCount

LEMMA SandboxInKeeps ==
    ASSUME FfiInv, NEW t \in Threads, SandboxIn(t)
    PROVE  FfiInv'
<1>1. StackOK /\ CallsOK /\ DataOK /\ FlagOK /\ IsFiniteSet(Copies) /\ mapped = Cardinality(Copies)
  BY FlagIs DEF FfiInv, MappedOK, MappingsHeld
<1>2. /\ Depth(t) > 0 /\ At(t, "in") /\ ArgumentsLeft(t) /\ Top(t).stage = "in"
      /\ Top(t) \in CallType /\ CallOK(Top(t))
  BY <1>1, TopFacts DEF SandboxIn, At, Top, CallsOK
<1>3. PICK j \in Nat, a \in Args : j = Top(t).next /\ a = Top(t).args[j]
  <2>1. Top(t).args \in Seq(Args) /\ Top(t).next \in 1 .. Len(Top(t).args) /\ Top(t).next \in Nat
    BY <1>2 DEF CallType, CallOK, ArgumentsLeft
  <2>2. QED
    BY <2>1
<1>4. \A d \in Copies : d.of # <<<<t, Depth(t)>>, j>>
  <2>1. Top(t).next <= Len(Top(t).args) /\ Top(t).given[Top(t).next].kind # "copy"
    BY <1>2, <1>3 DEF ArgumentsLeft, CallOK, CallType
  <2>2. QED
    BY <1>1, <1>2, <1>3, <2>1, NoCopyThere
<1>5. DataOK' /\ UNCHANGED in_ffi_call
  BY <1>1 DEF DataOK, SandboxIn
<1>6. CASE UNCHANGED mapped /\ \E g \in {Raw, NullGiven} : Give(t, g)
  <2>1. PICK g \in {Raw, NullGiven} : Give(t, g)
    BY <1>6
  <2>2. g \in Given /\ g.kind # "copy"
    BY DEF Given, Raw, NullGiven
  <2>3. StackOK' /\ CallsOK' /\ FlagOK' /\ Copies' = Copies
    BY <1>1, <1>2, <1>3, <1>4, <1>5, <2>1, <2>2, GiveKeeps
  <2>4. QED
    BY <1>5, <1>6, <2>3, SameCount
<1>7. CASE Give(t, Copy(DataOf(a))) /\ mapped' = mapped + 1
  <2>1. PICK g : g = Copy(DataOf(a))
    OBVIOUS
  <2>2. DataOf(a) \in [Window(a) -> Values]
    <3>1. AnyValue \in Values
      BY FfiAssumption DEF AnyValue
    <3>2. QED
      BY <1>1, <3>1 DEF DataOf, DataOK
  <2>3. g.kind = "copy" /\ g.data = DataOf(a) /\ g \in Given
    BY <2>1, <2>2 DEF Copy, Given
  <2>4. PICK e : e = [of |-> <<<<t, Depth(t)>>, j>>, data |-> g.data]
    OBVIOUS
  <2>5. /\ StackOK' /\ CallsOK' /\ FlagOK'
        /\ \A d : d \in Copies' <=> \/ d \in Copies /\ d.of # <<<<t, Depth(t)>>, j>>
                                    \/ d = e
    BY <1>1, <1>2, <1>3, <1>5, <1>7, <2>1, <2>2, <2>3, <2>4, GiveKeeps
  <2>6. Copies' = Copies \cup {e} /\ e \notin Copies
    BY <1>4, <2>4, <2>5
  <2>7. (IsFiniteSet(Copies) /\ mapped = Cardinality(Copies))'
    BY <1>1, <1>7, <2>6, FS_AddElement
  <2>8. QED
    BY <1>5, <2>5, <2>7, FfiInvFrom, PTL
<1>8. QED
  BY <1>3, <1>6, <1>7 DEF SandboxIn

LEMMA NoPlaces == \A i : i \notin 1 .. 0
<1>1. \A n \in Int : n = 0 => \A i \in 1 .. n : FALSE
  OBVIOUS
<1>2. QED
  BY <1>1, 0 \in Int

LEMMA NoCalls == <<>> \in Seq(CallType) /\ Len(<<>>) = 0
OBVIOUS

\* An aborted process has nothing left to keep.
LEMMA AbortKeeps ==
    ASSUME FfiInv, NEW message \in {"overrun", "library fault", "stack overflow"}, Abort(message)
    PROVE  FfiInv'
<1>1. calls' = [t \in Threads |-> <<>>] /\ in_ffi_call' = FALSE /\ mapped' = 0
  BY DEF Abort, Cleared
<1>2. DataOK'
  <2>1. AnyValue \in Values
    BY FfiAssumption DEF AnyValue
  <2>2. memory' \in [Cells -> Values]
    BY <2>1 DEF Abort, Cleared
  <2>3. QED
    BY <1>1, <2>2 DEF Abort, FfiInv, DataOK
<1>3. StackOK' /\ \A t \in Threads : Depth(t)' = 0 /\ \A i : i \notin 1 .. Depth(t)'
  <2>1. PICK empty : empty = <<>>
    OBVIOUS
  <2>2. StackOK'
    <3>1. <<>> \in Seq(CallType)
      BY NoCalls
    <3>2. calls' \in [Threads -> Seq(CallType)]
      BY <1>1, <3>1
    <3>3. QED
      BY <3>2 DEF StackOK
  <2>3. ASSUME NEW t \in Threads PROVE Depth(t)' = 0 /\ \A i : i \notin 1 .. Depth(t)'
    <3>1. calls'[t] = empty /\ Len(empty) = 0
      BY <1>1, <2>1, NoCalls
    <3>2. Depth(t)' = 0
      BY <3>1 DEF Depth
    <3>3. QED
      BY <3>2, NoPlaces
  <2>4. \A t \in Threads : Depth(t)' = 0 /\ \A i : i \notin 1 .. Depth(t)'
    BY <2>3
  <2>5. QED
    BY ONLY <2>2, <2>4
<1> CallsOK' /\ FlagOK'
  BY <1>1, <1>3 DEF CallsOK, FlagOK
<1>4. Copies' = {}
  <2>1. CopiesByPlace'
    BY <1>3, CopiesAre, PTL
  <2>2. \A t \in Threads, i \in Nat, k \in Nat : ~IsCopy(t, i, k)'
    BY <1>3 DEF IsCopy
  <2>3. QED
    BY <2>1, <2>2 DEF CopiesByPlace
<1>5. (IsFiniteSet(Copies) /\ mapped = Cardinality(Copies))'
  BY <1>1, <1>4, FS_EmptySet
<1>6. QED
  BY <1>2, <1>3, <1>5, FfiInvFrom, PTL

LEMMA SandboxOutKeeps ==
    ASSUME FfiInv, NEW t \in Threads, SandboxOut(t)
    PROVE  FfiInv'
<1>1. StackOK /\ CallsOK /\ DataOK /\ FlagOK /\ IsFiniteSet(Copies) /\ mapped = Cardinality(Copies)
  BY FlagIs DEF FfiInv, MappedOK, MappingsHeld
<1>2. /\ Depth(t) > 0 /\ At(t, "out") /\ ArgumentsLeft(t) /\ Top(t).stage = "out"
      /\ Top(t) \in CallType /\ CallOK(Top(t))
  BY <1>1, TopFacts DEF SandboxOut, At, Top, CallsOK
<1>3. PICK j \in 1 .. Len(Top(t).given) : j = Top(t).next /\ j <= Len(Top(t).args)
  BY <1>2 DEF CallType, CallOK, ArgumentsLeft
<1>4. Gone \in Given /\ Gone.kind # "copy"
  BY DEF Given, Gone
<1>5. CASE /\ Top(t).given[j].kind # "copy" /\ Give(t, Gone)
           /\ UNCHANGED <<memory, in_ffi_call, mapped, begun, process>>
  <2>1. \A d \in Copies : d.of # <<<<t, Depth(t)>>, j>>
    BY <1>1, <1>2, <1>3, <1>5, NoCopyThere
  <2>2. StackOK' /\ CallsOK' /\ FlagOK' /\ Copies' = Copies
    BY <1>1, <1>2, <1>3, <1>4, <1>5, <2>1, GiveKeeps
  <2>3. DataOK'
    BY <1>1, <1>5 DEF DataOK
  <2>4. QED
    BY <1>5, <2>2, <2>3, SameCount
<1>6. CASE /\ Top(t).given[j].kind = "copy" /\ Give(t, Gone)
           /\ memory' = WriteBack(Top(t).args[j], Top(t).given[j].data)
           /\ mapped' = Unmapped /\ UNCHANGED <<in_ffi_call, begun, process>>
  <2>1. PICK e : e = [of |-> <<<<t, Depth(t)>>, j>>, data |-> Top(t).given[j].data]
    OBVIOUS
  <2>2. e \in Copies /\ \A d : d \in Copies /\ d.of = <<<<t, Depth(t)>>, j>> <=> d = e
    BY <1>1, <1>2, <1>6, <2>1, CopyThere
  <2>3. /\ StackOK' /\ CallsOK' /\ FlagOK'
        /\ \A d : d \in Copies' <=> d \in Copies /\ d.of # <<<<t, Depth(t)>>, j>>
    BY <1>1, <1>2, <1>3, <1>4, <1>6, GiveKeeps
  <2>4. Copies' = Copies \ {e}
    BY <2>2, <2>3
  <2>5. (IsFiniteSet(Copies) /\ mapped = Cardinality(Copies))'
    BY <1>1, <1>6, <2>2, <2>4, FS_RemoveElement DEF Unmapped
  <2>6. DataOK'
    <3>1. Top(t).given[j].data \in [Window(Top(t).args[j]) -> Values]
      BY <1>2, <1>6 DEF CallOK
    <3>2. memory' \in [Cells -> Values]
      BY <1>1, <1>6, <3>1 DEF WriteBack, DataOK
    <3>3. QED
      BY <1>1, <1>6, <3>2 DEF DataOK
  <2>7. QED
    BY <2>3, <2>5, <2>6, FfiInvFrom, PTL
<1>7. CASE Abort("overrun")
  BY <1>7, AbortKeeps
<1>8. QED
  BY <1>3, <1>5, <1>6, <1>7 DEF SandboxOut

LEMMA StagesKeep ==
    ASSUME FfiInv, NEW t \in Threads, Enter(t) \/ Leave(t) \/ CallBack(t) \/ CallbackReturns(t)
    PROVE  FfiInv'
<1>1. StackOK /\ CallsOK /\ DataOK
  BY DEF FfiInv
<1>2. Depth(t) > 0
  BY DEF Enter, Leave, CallBack, CallbackReturns, At
<1>3. /\ Top(t) \in CallType /\ Top(t).next \in Nat
      /\ Top(t).next \in 1 .. Len(Top(t).args) + 1 /\ 1 \in 1 .. Len(Top(t).args) + 1
  <2>1. Top(t) \in CallType /\ CallOK(Top(t))
    BY <1>1, <1>2, TopFacts DEF CallsOK
  <2>2. QED
    BY <2>1 DEF CallOK, CallType
<1>4. CASE Leave(t)
  BY <1>1, <1>2, <1>3, <1>4, StageKeeps DEF Leave, CallStages
<1>5. CASE Enter(t) \/ CallBack(t) \/ CallbackReturns(t)
  <2>1. PICK stage \in Busy : SetTop(t, [Top(t) EXCEPT !.stage = stage])
    BY <1>5 DEF Enter, CallBack, CallbackReturns, Busy
  <2>2. [Top(t) EXCEPT !.stage = stage] = [Top(t) EXCEPT !.stage = stage, !.next = Top(t).next]
    BY <1>3 DEF CallType
  <2>3. /\ UNCHANGED <<memory, mapped, begun, process>> /\ in_ffi_call' \in BOOLEAN
    BY <1>1, <1>5 DEF Enter, CallBack, CallbackReturns, DataOK
  <2>4. stage \in CallStages /\ stage # "in" /\ stage # "out"
    BY DEF Busy, CallStages
  <2>5. QED
    BY <1>1, <1>2, <1>3, <2>1, <2>2, <2>3, <2>4, StageKeeps
<1>6. QED
  BY <1>4, <1>5

LEMMA ReturnKeeps ==
    ASSUME FfiInv, NEW t \in Threads, Return(t)
    PROVE  FfiInv'
<1>1. StackOK /\ CallsOK /\ DataOK /\ FlagOK
  BY FlagIs DEF FfiInv
<1>2. /\ Depth(t) > 0 /\ Top(t).stage = "out" /\ Top(t) \in CallType /\ CallOK(Top(t))
      /\ Top(t) = calls[t][Depth(t)]
  BY <1>1, TopFacts DEF Return, At, Top, CallsOK
<1>3. calls' = [calls EXCEPT ![t] = Front(@)] /\ UNCHANGED <<memory, in_ffi_call, mapped, begun, process>>
  BY DEF Return
<1>4. \A j \in 1 .. Len(Top(t).given) : Top(t).given[j].kind # "copy"
  BY <1>2 DEF Return, AllGivenBack, ArgumentsLeft, CallOK, CallType
<1>5. Copies' = Copies
  BY <1>1, <1>2, <1>3, <1>4, FrontCopies
<1>6. /\ StackOK'
      /\ \A u \in Threads :
            /\ Depth(u)' = IF u = t THEN Depth(t) - 1 ELSE Depth(u)
            /\ \A i \in 1 .. Depth(u)' :
                  /\ i \in 1 .. Depth(u) /\ (u = t => i # Depth(t))
                  /\ calls'[u][i] = calls[u][i]
  BY <1>1, <1>2, <1>3, AfterFront
<1>7. CallsOK'
  BY <1>1, <1>6 DEF CallsOK
<1>8. FlagOK'
  <2>1. \A u \in Threads : Depth(u) \in Nat
    BY <1>1 DEF StackOK, Depth
  <2>2. \A u \in Threads : \A i \in 1 .. Depth(u) : calls[u][i].stage \in Busy =>
           i \in 1 .. Depth(u)' /\ calls'[u][i] = calls[u][i]
    BY <1>2, <1>6, <2>1 DEF Busy
  <2>3. QED
    BY <1>1, <1>3, <2>2 DEF FlagOK
<1>9. DataOK'
  BY <1>1, <1>3 DEF DataOK
<1>10. QED
  BY <1>3, <1>5, <1>6, <1>7, <1>8, <1>9, SameCount

LEMMA MemoryKeeps ==
    ASSUME FfiInv, memory' \in [Cells -> Values], UNCHANGED <<calls, in_ffi_call, mapped, begun, process>>
    PROVE  FfiInv'
<1>1. StackOK' /\ CallsOK' /\ FlagOK'
  BY FlagIs DEF FfiInv, StackOK, CallsOK, FlagOK, Depth
<1>2. Copies' = Copies
  BY DEF Copies, Frames, Depth
<1>3. DataOK'
  BY DEF FfiInv, DataOK
<1>4. QED
  BY <1>1, <1>2, <1>3, SameCount

LEMMA LibraryWritesKeeps ==
    ASSUME FfiInv, NEW t \in Threads, LibraryWrites(t)
    PROVE  FfiInv'
<1>1. StackOK /\ CallsOK /\ DataOK /\ FlagOK /\ IsFiniteSet(Copies) /\ mapped = Cardinality(Copies)
  BY FlagIs DEF FfiInv, MappedOK, MappingsHeld
<1>2. /\ Depth(t) > 0 /\ Top(t).stage = "library" /\ Top(t) \in CallType /\ CallOK(Top(t))
  BY <1>1, TopFacts DEF LibraryWrites, At, Top, CallsOK
<1>3. PICK j \in DOMAIN Top(t).args, v \in Values :
         LET a == Top(t).args[j]
             g == Top(t).given[j]
         IN  \/ /\ \E c \in Extent(a.object) : memory' = [memory EXCEPT ![c] = v]
                /\ UNCHANGED <<calls, in_ffi_call, mapped, begun, process>>
             \/ /\ g.kind = "copy"
                /\ \E off \in 0 .. DataCells(a.size) - 1 :
                      SetTop(t, [Top(t) EXCEPT !.given[j] =
                          IF off < a.size
                          THEN [g EXCEPT !.data[a.at + off] = v]
                          ELSE [g EXCEPT !.canary = @ /\ off >= a.size + Canary]])
                /\ UNCHANGED <<memory, in_ffi_call, mapped, begun, process>>
  BY DEF LibraryWrites
<1>4. PICK a \in Args, g \in Given : a = Top(t).args[j] /\ g = Top(t).given[j]
  <2>1. /\ Top(t).args \in Seq(Args) /\ Top(t).given \in Seq(Given)
        /\ Len(Top(t).given) = Len(Top(t).args)
    BY <1>2 DEF CallType, CallOK
  <2>2. QED
    BY <2>1
<1>5. /\ j \in 1 .. Len(Top(t).given) /\ j \in Nat
      /\ Top(t).next \in 1 .. Len(Top(t).args) + 1
  BY <1>2 DEF CallType, CallOK
<1>6. CASE /\ \E c : memory' = [memory EXCEPT ![c] = v]
           /\ UNCHANGED <<calls, in_ffi_call, mapped, begun, process>>
  <2>1. memory' \in [Cells -> Values]
    BY <1>1, <1>6 DEF DataOK
  <2>2. QED
    BY <1>6, <2>1, MemoryKeeps
<1>7. ASSUME NEW h \in Given, h.kind = "copy", h.data \in [Window(a) -> Values], g.kind = "copy",
             SetTop(t, [Top(t) EXCEPT !.given[j] = h]),
             UNCHANGED <<memory, in_ffi_call, mapped, begun, process>>
      PROVE  FfiInv'
  <2>1. [Top(t) EXCEPT !.given[j] = h] = [Top(t) EXCEPT !.given[j] = h, !.next = Top(t).next]
    BY <1>2 DEF CallType
  <2>2. PICK e, f : /\ e = [of |-> <<<<t, Depth(t)>>, j>>, data |-> g.data]
                    /\ f = [of |-> <<<<t, Depth(t)>>, j>>, data |-> h.data]
    OBVIOUS
  <2>3. e \in Copies /\ \A d : d \in Copies /\ d.of = <<<<t, Depth(t)>>, j>> <=> d = e
    BY <1>1, <1>2, <1>4, <1>5, <1>7, <2>2, CopyThere
  <2>4. /\ StackOK' /\ CallsOK' /\ FlagOK'
        /\ \A d : d \in Copies' <=> \/ d \in Copies /\ d.of # <<<<t, Depth(t)>>, j>>
                                    \/ d = f
    <3>1. PICK n \in 1 .. Len(Top(t).args) + 1 : n = Top(t).next
      BY <1>5
    <3>2. SetTop(t, [Top(t) EXCEPT !.given[j] = h, !.next = n])
      BY <1>7, <2>1, <3>1
    <3>3. Top(t).stage # "in" /\ Top(t).stage # "out"
      BY <1>2
    <3>4. /\ StackOK' /\ CallsOK' /\ FlagOK'
          /\ \A d : d \in Copies' <=>
                \/ d \in Copies /\ d.of # <<<<t, Depth(t)>>, j>>
                \/ h.kind = "copy" /\ d = [of |-> <<<<t, Depth(t)>>, j>>, data |-> h.data]
      BY <1>1, <1>2, <1>4, <1>5, <1>7, <3>2, <3>3, GivenKeeps
    <3>5. QED
      BY <1>7, <2>2, <3>4
  <2>5. Copies' = (Copies \ {e}) \cup {f} /\ f \notin Copies \ {e}
    BY <2>2, <2>3, <2>4
  <2>6. (IsFiniteSet(Copies) /\ mapped = Cardinality(Copies))'
    <3>1. IsFiniteSet(Copies \ {e}) /\ Cardinality(Copies \ {e}) = Cardinality(Copies) - 1
      BY <1>1, <2>3, FS_RemoveElement
    <3>2. IsFiniteSet(Copies') /\ Cardinality(Copies') = Cardinality(Copies) - 1 + 1
      BY <2>5, <3>1, FS_AddElement
    <3>3. QED
      BY <1>1, <1>7, <3>2, FS_CardinalityType
  <2>7. DataOK'
    BY <1>1, <1>7 DEF DataOK
  <2>8. QED
    BY <2>4, <2>6, <2>7, FfiInvFrom, PTL
<1>8. ASSUME g.kind = "copy", NEW off \in 0 .. DataCells(a.size) - 1
      PROVE  /\ off < a.size => /\ [g EXCEPT !.data[a.at + off] = v] \in Given
                                /\ [g EXCEPT !.data[a.at + off] = v].kind = "copy"
                                /\ [g EXCEPT !.data[a.at + off] = v].data \in [Window(a) -> Values]
             /\ [g EXCEPT !.canary = @ /\ off >= a.size + Canary] \in Given
             /\ [g EXCEPT !.canary = @ /\ off >= a.size + Canary].kind = "copy"
             /\ [g EXCEPT !.canary = @ /\ off >= a.size + Canary].data \in [Window(a) -> Values]
  <2>1. g.data \in [Window(a) -> Values]
    BY <1>2, <1>4, <1>5, <1>8 DEF CallOK
  <2>2. g \in [kind : {"copy"}, data : UNION {[Window(b) -> Values] : b \in Args}, canary : BOOLEAN]
    BY <1>4, <1>8 DEF Given, Raw, NullGiven, Gone
  <2>3. PICK data \in [Window(a) -> Values] : data = [g.data EXCEPT ![a.at + off] = v]
    BY <2>1
  <2>4. [g EXCEPT !.data[a.at + off] = v] = [g EXCEPT !.data = data]
    BY <2>2, <2>3
  <2>5. [g EXCEPT !.data = data] \in Given /\ [g EXCEPT !.data = data].kind = "copy"
        /\ [g EXCEPT !.data = data].data = data
    BY <2>2, <2>3 DEF Given
  <2>6. PICK canary \in BOOLEAN : canary = (g.canary /\ off >= a.size + Canary)
    OBVIOUS
  <2>7. [g EXCEPT !.canary = @ /\ off >= a.size + Canary] = [g EXCEPT !.canary = canary]
    BY <2>6
  <2>8. [g EXCEPT !.canary = canary] \in Given /\ [g EXCEPT !.canary = canary].kind = "copy"
        /\ [g EXCEPT !.canary = canary].data = g.data
    BY <2>2 DEF Given
  <2>9. QED
    BY <2>1, <2>3, <2>4, <2>5, <2>7, <2>8
<1>9. CASE /\ g.kind = "copy"
           /\ \E off \in 0 .. DataCells(a.size) - 1 :
                 SetTop(t, [Top(t) EXCEPT !.given[j] =
                     IF off < a.size
                     THEN [g EXCEPT !.data[a.at + off] = v]
                     ELSE [g EXCEPT !.canary = @ /\ off >= a.size + Canary]])
           /\ UNCHANGED <<memory, in_ffi_call, mapped, begun, process>>
  <2>1. PICK off, h : off \in 0 .. DataCells(a.size) - 1 /\
           /\ h = IF off < a.size THEN [g EXCEPT !.data[a.at + off] = v]
                  ELSE [g EXCEPT !.canary = @ /\ off >= a.size + Canary]
           /\ SetTop(t, [Top(t) EXCEPT !.given[j] = h])
    BY <1>9
  <2>2. h \in Given /\ h.kind = "copy" /\ h.data \in [Window(a) -> Values]
    BY <1>8, <1>9, <2>1
  <2>3. QED
    BY <1>7, <1>9, <2>1, <2>2
<1>10. QED
  BY <1>3, <1>4, <1>6, <1>9

LEMMA ProgramWritesKeeps ==
    ASSUME FfiInv, NEW t \in Threads, ProgramWrites(t)
    PROVE  FfiInv'
<1>1. memory' \in [Cells -> Values]
  BY DEF ProgramWrites, FfiInv, DataOK
<1>2. QED
  BY <1>1, MemoryKeeps DEF ProgramWrites

LEMMA HandlerKeeps ==
    ASSUME FfiInv, sigsegv_handler
    PROVE  FfiInv'
<1>1. PICK message \in {"library fault", "stack overflow"} : Abort(message)
  BY DEF sigsegv_handler
<1>2. QED
  BY <1>1, AbortKeeps

LEMMA FfiInit == Init => FfiInv
<1> SUFFICES ASSUME Init PROVE FfiInv
  OBVIOUS
<1>1. DataOK
  <2>1. AnyValue \in Values /\ MaxCalls \in Nat
    BY FfiAssumption DEF AnyValue
  <2>2. \A m \in Nat : 0 \in 0 .. m
    OBVIOUS
  <2>3. QED
    BY <2>1, <2>2 DEF Init, DataOK
<1>2. StackOK
  <2>2. <<>> \in Seq(CallType)
    BY NoCalls
  <2>3. QED
    BY <2>2 DEF Init, StackOK
<1>3. ASSUME NEW t \in Threads PROVE Depth(t) = 0
  BY DEF Init, Depth
<1>4. \A t \in Threads : 1 .. Depth(t) = {}
  BY <1>3
<1>5. CallsOK /\ FlagOK
  BY <1>4 DEF Init, CallsOK, FlagOK
<1>6. Copies = {}
  <2>1. CopiesByPlace
    BY <1>2, CopiesAre
  <2>2. \A t \in Threads, i \in Nat, k \in Nat : ~IsCopy(t, i, k)
    BY <1>4 DEF IsCopy
  <2>3. QED
    BY <2>1, <2>2 DEF CopiesByPlace
<1>7. IsFiniteSet(Copies) /\ mapped = Cardinality(Copies)
  BY <1>6, FS_EmptySet DEF Init
<1>8. QED
  BY <1>1, <1>2, <1>5, <1>7, FfiInvFrom

LEMMA FfiStep == FfiInv /\ [Next]_vars => FfiInv'
<1> SUFFICES ASSUME FfiInv, [Next]_vars PROVE FfiInv'
  OBVIOUS
<1>1. CASE UNCHANGED vars
  BY <1>1, MemoryKeeps DEF vars, FfiInv, DataOK
<1>2. ASSUME NEW t \in Threads, CallStep(t) PROVE FfiInv'
  BY <1>2, SandboxInKeeps, SandboxOutKeeps, StagesKeep, ReturnKeeps DEF CallStep
<1>3. ASSUME NEW t \in Threads,
             \/ BeginCall(t)
             \/ LibraryWrites(t)
             \/ LibraryFaults(t)
             \/ CallBack(t)
             \/ ProgramWrites(t)
             \/ StackOverflow(t)
      PROVE  FfiInv'
  <2>1. CASE BeginCall(t)
    BY <2>1, BeginCallKeeps
  <2>2. CASE LibraryWrites(t)
    BY <2>2, LibraryWritesKeeps
  <2>3. CASE LibraryFaults(t) \/ StackOverflow(t)
    BY <2>3, HandlerKeeps DEF LibraryFaults, StackOverflow
  <2>4. CASE CallBack(t)
    BY <2>4, StagesKeep
  <2>5. CASE ProgramWrites(t)
    BY <2>5, ProgramWritesKeeps
  <2>6. QED
    BY <1>3, <2>1, <2>2, <2>3, <2>4, <2>5
<1>4. QED
  BY <1>1, <1>2, <1>3 DEF Next

\* FfiInv is an invariant: the stacks of calls are typed, every copy is of the argument
\* it stands for, and there are as many copies as mappings.
THEOREM FfiInvariant == Spec => []FfiInv
<1>1. QED
  BY FfiInit, FfiStep, PTL DEF Spec

\* Every state of the sandbox is typed: a copy always has the cells of its argument, and
\* a thread that is in several calls has been called back in all but the innermost.
THEOREM SandboxTypes == Spec => []TypeOK
<1>1. FfiInv => TypeOK
  <2> SUFFICES ASSUME FfiInv PROVE TypeOK
    OBVIOUS
  <2>1. DataOK /\ StackOK /\ CallsOK
    BY DEF FfiInv
  <2>2. mapped \in Nat
    BY FS_CardinalityType DEF FfiInv, MappedOK, MappingsHeld
  <2>3. \A t \in Threads : Depth(t) \in Nat
    BY <2>1 DEF StackOK, Depth
  <2>4. ASSUME NEW t \in Threads, NEW i \in 1 .. Depth(t), NEW call, call = calls[t][i]
        PROVE  /\ call.stage \in {"in", "library", "callback", "out"}
               /\ call.next \in 1 .. Len(call.args) + 1
               /\ \A j \in DOMAIN call.args :
                     /\ call.args[j] \in Args
                     /\ call.given[j].kind = "copy" =>
                           call.given[j].data \in [Window(call.args[j]) -> Values]
    <3>1. call \in CallType /\ CallOK(call)
      BY <2>1, <2>4, CallTyped DEF CallsOK
    <3>2. /\ call.args \in Seq(Args) /\ call.given \in Seq(Given) /\ Len(call.given) = Len(call.args)
          /\ DOMAIN call.args = 1 .. Len(call.args)
      BY <3>1 DEF CallType, CallOK
    <3>3. QED
      BY <3>1, <3>2 DEF CallType, CallStages, CallOK
  <2>5. ASSUME NEW f \in Frames
        PROVE  LET call == calls[f[1]][f[2]]
               IN  /\ call.stage \in {"in", "library", "callback", "out"}
                   /\ call.next \in 1 .. Len(call.args) + 1
                   /\ \A j \in DOMAIN call.args :
                         /\ call.args[j] \in Args
                         /\ call.given[j].kind = "copy" =>
                               call.given[j].data \in [Window(call.args[j]) -> Values]
    <3>1. PICK t \in Threads : \E i \in 1 .. Depth(t) : f = <<t, i>>
      BY DEF Frames
    <3>2. PICK i \in 1 .. Depth(t) : f = <<t, i>>
      BY <3>1
    <3>3. f[1] = t /\ f[2] = i
      BY <3>2
    <3>4. QED
      BY <2>4, <3>3
  <2>6. \A t \in Threads : \A i \in 1 .. Depth(t) - 1 : calls[t][i].stage = "callback"
    BY <2>1, <2>3 DEF CallsOK
  <2>7. QED
    BY <2>1, <2>2, <2>5, <2>6 DEF TypeOK, DataOK
<1>2. QED
  BY <1>1, FfiInvariant, PTL

\* IN_FFI_CALL is set only while some thread is between ffi_enter and ffi_leave, however
\* the calls of the threads overlap and are nested.
THEOREM FlagClears == Spec => []FlagClearWhenIdle
<1>1. FfiInv => FlagClearWhenIdle
  BY DEF FfiInv
<1>2. QED
  BY <1>1, FfiInvariant, PTL

\* Every mapping ffi_sandbox_in made is of a copy a call still holds.
THEOREM MappingsAreHeld == Spec => []MappingsHeld
<1>1. FfiInv => MappingsHeld
  BY DEF FfiInv, MappedOK
<1>2. QED
  BY <1>1, FfiInvariant, PTL

-----------------------------------------------------------------------------
(* The sandbox implements DirectCalls: with pointers to the beginning of   *)
(* objects, none of which two arguments share, copying in, calling and     *)
(* copying out is a library working on the program's objects themselves.   *)

Separated == Interior = FALSE /\ Sharing = FALSE

-----------------------------------------------------------------------------
(* Objects are apart *)

LEMMA Multiples ==
    ASSUME NEW s \in Nat, NEW o \in Nat, NEW p \in Nat, o < p
    PROVE  (o - 1) * s + s <= (p - 1) * s
<1>1. PICK d \in Nat : p = o + 1 + d
  <2>1. p - o - 1 \in Nat /\ p = o + 1 + (p - o - 1)
    OBVIOUS
  <2>2. QED
    BY <2>1
<1>2. d * s \in Nat
  OBVIOUS
<1>3. (p - 1) * s = (o - 1) * s + s + d * s
  BY <1>1
<1>4. (o - 1) * s \in Int
  OBVIOUS
<1>5. QED
  BY <1>2, <1>3, <1>4

LEMMA Apart ==
    ASSUME NEW o \in 1 .. Objects
    PROVE  /\ Extent(o) \subseteq Cells
           /\ \A p \in 1 .. Objects : o # p => Extent(o) \cap Extent(p) = {}
<1>1. PICK n \in Nat \ {0}, s \in Nat \ {0} : n = Objects /\ s = ObjectSize
  BY FfiAssumption
<1>2. \A p \in 1 .. n : p \in Nat /\ (p - 1) * s \in Int /\ (p - 1) * s >= 0
  OBVIOUS
<1>3. \A p \in 1 .. n : Extent(p) = (p - 1) * s + 1 .. (p - 1) * s + s
  BY <1>1, <1>2 DEF Extent, Base
<1>4. Cells = 1 .. n * s /\ n * s \in Int
  BY <1>1 DEF Cells
<1>5. (o - 1) * s + s <= n * s
  <2>1. n * s = (n + 1 - 1) * s /\ o < n + 1 /\ n + 1 \in Nat /\ o \in Nat
    BY <1>1
  <2>2. QED
    BY <2>1, Multiples
<1>6. ASSUME NEW p \in 1 .. n, o # p PROVE Extent(o) \cap Extent(p) = {}
  <2>1. \/ (o - 1) * s + s <= (p - 1) * s
        \/ (p - 1) * s + s <= (o - 1) * s
    <3>1. o < p \/ p < o
      BY <1>1, <1>6
    <3>2. QED
      BY <1>1, <3>1, Multiples
  <2>2. ASSUME NEW c \in Extent(o), c \in Extent(p) PROVE FALSE
    <3>1. PICK x \in Int, y \in Int : x = (o - 1) * s /\ y = (p - 1) * s
      BY <1>1, <1>2
    <3>2. c \in x + 1 .. x + s /\ c \in y + 1 .. y + s /\ (x + s <= y \/ y + s <= x)
      BY <1>1, <1>3, <2>1, <2>2, <3>1
    <3>3. QED
      BY <3>2
  <2>3. QED
    BY <2>2
<1>7. Extent(o) \subseteq Cells
  <2>1. PICK x \in Int, m \in Int : x = (o - 1) * s /\ m = n * s
    BY <1>1, <1>2, <1>4
  <2>2. x >= 0 /\ x + s <= m
    BY <1>1, <1>2, <1>5, <2>1
  <2>3. Extent(o) = x + 1 .. x + s /\ Cells = 1 .. m
    BY <1>1, <1>3, <1>4, <2>1
  <2>4. QED
    BY <2>2, <2>3
<1>8. QED
  BY <1>1, <1>6, <1>7

\* The cells a copy is of are cells of the object, for a pointer to its beginning.
LEMMA WindowIs ==
    ASSUME Separated, NEW a \in Args
    PROVE  /\ a.object \in 0 .. Objects
           /\ a.object = 0 <=> a = NullArg
           /\ a.object # 0 => a.at = Base(a.object) /\ a.object \in 1 .. Objects
           /\ a.size > 0 => a.size = ObjectSize /\ a.object # 0 /\ Window(a) = Extent(a.object)
           /\ \A c \in Window(a) : a.size > 0
           /\ a.size \in {0, ObjectSize, Infinite}
<1>1. PICK n \in Nat \ {0}, s \in Nat \ {0} : n = Objects /\ s = ObjectSize
  BY FfiAssumption
<1>2. CASE a = NullArg
  BY <1>1, <1>2 DEF NullArg, Window
<1>3. CASE a # NullArg
  <2>1. /\ a \in [object : 1 .. n, at : Cells, size : {s, -1}]
        /\ a.at = Base(a.object)
    BY <1>1, <1>3 DEF Args, Separated, Infinite
  <2>2. Cells \subseteq Int
    BY DEF Cells
  <2>3. PICK o \in 1 .. n, at \in Int, size \in {s, -1} : a.object = o /\ a.at = at /\ a.size = size
    BY <2>1, <2>2
  <2>4. o # 0 /\ NullArg.object = 0 /\ o \in 0 .. n
    BY <2>3 DEF NullArg
  <2>5. \A c \in Window(a) : a.size > 0
    BY <1>1, <2>3 DEF Window
  <2>6. a.size > 0 => Window(a) = Extent(o)
    BY <1>1, <2>1, <2>3 DEF Window, Extent
  <2>7. QED
    BY <1>1, <2>1, <2>3, <2>4, <2>5, <2>6 DEF Infinite
<1>4. QED
  BY <1>2, <1>3

-----------------------------------------------------------------------------
(* No object is lent twice *)

Held(t, i, j)     == i \in 1 .. Depth(t) /\ j \in 1 .. Len(calls[t][i].args)
ObjectAt(t, i, j) == calls[t][i].args[j].object

SeparateOK ==
    \A t \in Threads, i \in Nat, j \in Nat, u \in Threads, k \in Nat, l \in Nat :
       Held(t, i, j) /\ Held(u, k, l) /\ ObjectAt(t, i, j) # 0 /\ ObjectAt(u, k, l) = ObjectAt(t, i, j)
          => t = u /\ i = k /\ j = l

LEMMA HeldTyped ==
    ASSUME StackOK, NEW t \in Threads, NEW i, NEW j, Held(t, i, j)
    PROVE  calls[t][i].args[j] \in Args /\ i \in Nat /\ j \in Nat
<1>1. i \in 1 .. Depth(t) /\ j \in 1 .. Len(calls[t][i].args) /\ Depth(t) \in Nat
  BY DEF Held, StackOK, Depth
<1>2. calls[t][i].args \in Seq(Args)
  BY <1>1, CallTyped DEF CallType
<1>3. QED
  BY <1>1, <1>2

\* What every call holds afterwards, it held before.
LEMMA FewerHeld ==
    ASSUME SeparateOK,
           \A u \in Threads, i \in Nat, j \in Nat : Held(u, i, j)' =>
              Held(u, i, j) /\ ObjectAt(u, i, j)' = ObjectAt(u, i, j)
    PROVE  SeparateOK'
BY DEF SeparateOK

LEMMA SetSeparate ==
    ASSUME StackOK, SeparateOK, NEW t \in Threads, Depth(t) > 0, NEW call \in CallType,
           SetTop(t, call), call.args = Top(t).args
    PROVE  SeparateOK'
<1>1. \A u \in Threads : Depth(u)' = Depth(u) /\ \A i \in 1 .. Depth(u) :
         calls'[u][i] = IF u = t /\ i = Depth(t) THEN call ELSE calls[u][i]
  BY AfterSet
<1>2. \A u \in Threads : \A i \in 1 .. Depth(u) : calls'[u][i].args = calls[u][i].args
  BY <1>1, TopFacts
<1>3. \A u \in Threads, i \in Nat, j \in Nat : Held(u, i, j)' =>
         Held(u, i, j) /\ ObjectAt(u, i, j)' = ObjectAt(u, i, j)
  BY <1>1, <1>2 DEF Held, ObjectAt
<1>4. QED
  BY <1>3, FewerHeld

LEMMA ReturnSeparate ==
    ASSUME StackOK, SeparateOK, NEW t \in Threads, Depth(t) > 0, calls' = [calls EXCEPT ![t] = Front(@)]
    PROVE  SeparateOK'
<1>1. \A u \in Threads : \A i \in 1 .. Depth(u)' : i \in 1 .. Depth(u) /\ calls'[u][i] = calls[u][i]
  BY AfterFront
<1>2. \A u \in Threads, i \in Nat, j \in Nat : Held(u, i, j)' =>
         Held(u, i, j) /\ ObjectAt(u, i, j)' = ObjectAt(u, i, j)
  BY <1>1 DEF Held, ObjectAt
<1>3. QED
  BY <1>2, FewerHeld

LEMMA PassedIs ==
    ASSUME NEW call, NEW j \in DOMAIN call.args, call.args[j].object # 0
    PROVE  call.args[j].object \in Passed(call)
BY DEF Passed

LEMMA BeginSeparate ==
    ASSUME StackOK, SeparateOK, NEW t \in Threads, NEW call \in CallType,
           calls' = [calls EXCEPT ![t] = Append(@, call)],
           \A j, k \in DOMAIN call.args :
              j # k /\ call.args[j] # NullArg => call.args[j].object # call.args[k].object,
           \A f \in Frames : Passed(call) \cap Passed(calls[f[1]][f[2]]) = {}
    PROVE  SeparateOK'
<1>1. /\ \A u \in Threads :
            /\ Depth(u)' = IF u = t THEN Depth(t) + 1 ELSE Depth(u)
            /\ \A i \in 1 .. Depth(u) : calls'[u][i] = calls[u][i]
      /\ calls'[t][Depth(t) + 1] = call
  BY AfterAppend
<1>2. PICK n \in Nat : n = Depth(t)
  BY DEF StackOK, Depth
<1>3. call.args \in Seq(Args) /\ DOMAIN call.args = 1 .. Len(call.args)
  BY DEF CallType
<1>4. ASSUME NEW u \in Threads, NEW i \in Nat, NEW j \in Nat, Held(u, i, j)', u # t \/ i # n + 1
      PROVE  Held(u, i, j) /\ ObjectAt(u, i, j)' = ObjectAt(u, i, j)
  <2>1. Depth(u) \in Nat /\ Depth(u)' = (IF u = t THEN n + 1 ELSE Depth(u)) /\ (u = t => Depth(u) = n)
    BY <1>1, <1>2 DEF StackOK, Depth
  <2>2. i \in 1 .. Depth(u)
    BY <1>4, <2>1 DEF Held
  <2>3. QED
    BY <1>1, <1>4, <2>2 DEF Held, ObjectAt
<1>5. ASSUME NEW j \in Nat, Held(t, n + 1, j)'
      PROVE  j \in DOMAIN call.args /\ ObjectAt(t, n + 1, j)' = call.args[j].object
  BY <1>1, <1>2, <1>3, <1>5 DEF Held, ObjectAt
<1>6. \A j, k \in DOMAIN call.args :
         j # k /\ call.args[j].object # 0 => call.args[j].object # call.args[k].object
  BY DEF NullArg
<1>7. ASSUME NEW u \in Threads, NEW i \in Nat, NEW j \in Nat, Held(u, i, j), ObjectAt(u, i, j) # 0,
             NEW k \in DOMAIN call.args
      PROVE  call.args[k].object # ObjectAt(u, i, j)
  <2>1. /\ j \in DOMAIN calls[u][i].args /\ i \in 1 .. Depth(u)
    BY <1>7, CallTyped DEF Held, CallType
  <2>2. ObjectAt(u, i, j) \in Passed(calls[u][i])
    BY <1>7, <2>1, PassedIs DEF ObjectAt
  <2>3. PICK f : f = <<u, i>>
    OBVIOUS
  <2>4. f \in Frames /\ f[1] = u /\ f[2] = i
    BY <2>1, <2>3 DEF Frames
  <2>5. Passed(call) \cap Passed(calls[u][i]) = {}
    BY <2>4
  <2>6. QED
    BY <1>7, <2>2, <2>5, PassedIs
<1>8. ASSUME NEW u \in Threads, NEW i \in Nat, NEW j \in Nat, NEW w \in Threads, NEW k \in Nat, NEW l \in Nat,
             Held(u, i, j)', Held(w, k, l)', ObjectAt(u, i, j)' # 0,
             ObjectAt(w, k, l)' = ObjectAt(u, i, j)'
      PROVE  u = w /\ i = k /\ j = l
  <2>1. CASE u = t /\ i = n + 1 /\ w = t /\ k = n + 1
    BY <1>5, <1>6, <1>8, <2>1
  <2>2. CASE (u # t \/ i # n + 1) /\ (w # t \/ k # n + 1)
    BY <1>4, <1>8, <2>2 DEF SeparateOK
  <2>3. CASE u = t /\ i = n + 1 /\ (w # t \/ k # n + 1)
    BY <1>4, <1>5, <1>7, <1>8, <2>3
  <2>4. CASE (u # t \/ i # n + 1) /\ w = t /\ k = n + 1
    BY <1>4, <1>5, <1>7, <1>8, <2>4
  <2>5. QED
    BY <2>1, <2>2, <2>3, <2>4
<1>9. QED
  BY <1>8 DEF SeparateOK

-----------------------------------------------------------------------------
(* The program's memory and the copies as one *)

\* A copy of a cell lent for an argument is the copy given for that argument.
LEMMA CoverPlace ==
    ASSUME Separated, FfiInv, SeparateOK, NEW d \in Copies, NEW c \in DOMAIN d.data,
           NEW t \in Threads, NEW i \in Nat, NEW j \in Nat, Held(t, i, j), ObjectAt(t, i, j) # 0,
           c \in Extent(ObjectAt(t, i, j))
    PROVE  d.of = <<<<t, i>>, j>>
<1>1. StackOK /\ CallsOK /\ CopiesByPlace
  BY CopiesAre DEF FfiInv
<1>2. PICK u \in Threads, k \in Nat, l \in Nat : IsCopy(u, k, l) /\ d = CopyAt(u, k, l)
  BY <1>1 DEF CopiesByPlace
<1>3. /\ k \in 1 .. Depth(u) /\ CallOK(calls[u][k])
      /\ l \in 1 .. Len(calls[u][k].args) /\ d.data = calls[u][k].given[l].data
      /\ calls[u][k].given[l].kind = "copy" /\ l \in 1 .. Len(calls[u][k].given)
  BY <1>1, <1>2 DEF IsCopy, CopyAt, CallsOK, CallOK
<1>4. Held(u, k, l) /\ d.data \in [Window(calls[u][k].args[l]) -> Values]
  BY <1>3 DEF Held, CallOK
<1>5. PICK a \in Args : a = calls[u][k].args[l]
  BY <1>1, <1>4, HeldTyped
<1>6. c \in Window(a)
  BY <1>4, <1>5
<1>7. a.object \in 1 .. Objects /\ a.object # 0 /\ c \in Extent(a.object)
  BY <1>6, WindowIs
<1>8. PICK b \in Args : b = calls[t][i].args[j]
  BY <1>1, HeldTyped
<1>9. b.object \in 1 .. Objects
  BY <1>8, WindowIs DEF ObjectAt
<1>10. a.object = b.object
  BY <1>7, <1>8, <1>9, Apart DEF ObjectAt
<1>11. t = u /\ i = k /\ j = l
  BY <1>4, <1>5, <1>7, <1>8, <1>10 DEF SeparateOK, ObjectAt
<1>12. QED
  BY <1>2, <1>11 DEF CopyAt

\* No cell has two copies.
LEMMA OneCopy ==
    ASSUME Separated, FfiInv, SeparateOK, NEW d \in Copies, NEW e \in Copies,
           NEW c \in DOMAIN d.data, c \in DOMAIN e.data
    PROVE  d = e
<1>1. StackOK /\ CallsOK /\ CopiesByPlace
  BY CopiesAre DEF FfiInv
<1>2. PICK u \in Threads, k \in Nat, l \in Nat : IsCopy(u, k, l) /\ d = CopyAt(u, k, l)
  BY <1>1 DEF CopiesByPlace
<1>3. PICK w \in Threads, m \in Nat, n \in Nat : IsCopy(w, m, n) /\ e = CopyAt(w, m, n)
  BY <1>1 DEF CopiesByPlace
<1>4. Held(u, k, l) /\ d.data \in [Window(calls[u][k].args[l]) -> Values]
  BY <1>1, <1>2 DEF IsCopy, CopyAt, CallsOK, CallOK, Held
<1>5. PICK a \in Args : a = calls[u][k].args[l]
  BY <1>1, <1>4, HeldTyped
<1>6. ObjectAt(u, k, l) # 0 /\ c \in Extent(ObjectAt(u, k, l))
  BY <1>4, <1>5, WindowIs DEF ObjectAt
<1>7. e.of = <<<<u, k>>, l>>
  BY <1>4, <1>6, CoverPlace
<1>8. w = u /\ m = k /\ n = l
  BY <1>3, <1>7 DEF CopyAt
<1>9. QED
  BY <1>2, <1>3, <1>8

\* A copy is of cells of memory, lent for a pointer that is not NULL.
LEMMA CopyOf ==
    ASSUME Separated, StackOK, CallsOK, NEW d \in Copies
    PROVE  \E t \in Threads, i \in Nat, j \in Nat :
              /\ Held(t, i, j) /\ IsCopy(t, i, j) /\ d = CopyAt(t, i, j)
              /\ d.data \in [Window(calls[t][i].args[j]) -> Values]
              /\ calls[t][i].args[j] \in Args
              /\ \A c \in DOMAIN d.data : /\ c \in Cells /\ ObjectAt(t, i, j) \in 1 .. Objects
                                          /\ c \in Extent(ObjectAt(t, i, j))
<1>1. CopiesByPlace
  BY CopiesAre
<1>2. PICK u \in Threads, k \in Nat, l \in Nat : IsCopy(u, k, l) /\ d = CopyAt(u, k, l)
  BY <1>1 DEF CopiesByPlace
<1>3. Held(u, k, l) /\ d.data \in [Window(calls[u][k].args[l]) -> Values]
  BY <1>1, <1>2 DEF IsCopy, CopyAt, CallsOK, CallOK, Held
<1>4. PICK a \in Args : a = calls[u][k].args[l]
  BY <1>3, HeldTyped
<1>5. \A c \in DOMAIN d.data : /\ c \in Cells /\ ObjectAt(u, k, l) \in 1 .. Objects
                               /\ c \in Extent(ObjectAt(u, k, l))
  BY <1>3, <1>4, WindowIs, Apart DEF ObjectAt
<1>6. QED
  BY <1>2, <1>3, <1>4, <1>5

ViewOK ==
    /\ View \in [Cells -> Values]
    /\ \A c \in Cells :
          /\ \A d \in Copies : c \in DOMAIN d.data => View[c] = d.data[c]
          /\ (\A d \in Copies : c \notin DOMAIN d.data) => View[c] = memory[c]

LEMMA ViewIs == Separated /\ FfiInv /\ SeparateOK => ViewOK
<1> SUFFICES ASSUME Separated, FfiInv, SeparateOK PROVE ViewOK
  OBVIOUS
<1>1. StackOK /\ CallsOK /\ memory \in [Cells -> Values]
  BY DEF FfiInv, DataOK
<1>2. ASSUME NEW c \in Cells
      PROVE  /\ View[c] \in Values
             /\ \A d \in Copies : c \in DOMAIN d.data => View[c] = d.data[c]
             /\ (\A d \in Copies : c \notin DOMAIN d.data) => View[c] = memory[c]
  <2>1. View[c] = IF \E d \in Copies : c \in DOMAIN d.data
                  THEN (CHOOSE d \in Copies : c \in DOMAIN d.data).data[c]
                  ELSE memory[c]
    BY DEF View
  <2>2. CASE \A d \in Copies : c \notin DOMAIN d.data
    BY <1>1, <2>1, <2>2
  <2>3. CASE \E d \in Copies : c \in DOMAIN d.data
    <3>1. PICK e : e = CHOOSE d \in Copies : c \in DOMAIN d.data
      OBVIOUS
    <3>2. e \in Copies /\ c \in DOMAIN e.data
      BY <2>3, <3>1
    <3>3. View[c] = e.data[c]
      BY <2>1, <2>3, <3>1
    <3>4. \A d \in Copies : c \in DOMAIN d.data => d = e
      BY <3>2, OneCopy
    <3>5. e.data[c] \in Values
      BY <1>1, <3>2, CopyOf
    <3>6. QED
      BY <2>3, <3>3, <3>4, <3>5
  <2>4. QED
    BY <2>2, <2>3
<1>3. View = [c \in Cells |-> View[c]]
  BY DEF View
<1>4. View \in [Cells -> Values]
  BY <1>2, <1>3
<1>5. QED
  BY <1>2, <1>4 DEF ViewOK

LEMMA SameView ==
    ASSUME ViewOK, ViewOK', \A c \in Cells : View'[c] = View[c]
    PROVE  View' = View
BY DEF ViewOK

LEMMA WrittenView ==
    ASSUME ViewOK, ViewOK', NEW c \in Cells, NEW v,
           \A b \in Cells : View'[b] = IF b = c THEN v ELSE View[b]
    PROVE  View' = [View EXCEPT ![c] = v]
BY DEF ViewOK

-----------------------------------------------------------------------------
(* What is lent, and who strayed *)

lentBy    == [t \in Threads |-> [i \in 1 .. Depth(t) |-> Lent(calls[t][i])]]
strayedBy == [t \in Threads |-> [i \in 1 .. Depth(t) |-> Overrun(calls[t][i])]]

\* What a step leaves of the calls, as DirectCalls sees them.
CallsSame ==
    \A u \in Threads :
       /\ Depth(u)' = Depth(u)
       /\ \A i \in 1 .. Depth(u) : /\ Lent(calls[u][i])' = Lent(calls[u][i])
                                   /\ Overrun(calls[u][i])' <=> Overrun(calls[u][i])

LEMMA MapsSame ==
    ASSUME CallsSame
    PROVE  lentBy' = lentBy /\ strayedBy' = strayedBy
<1>1. \A u \in Threads : 1 .. Depth(u)' = 1 .. Depth(u)
  BY DEF CallsSame
<1>2. \A u \in Threads : [i \in 1 .. Depth(u) |-> Lent(calls[u][i])]'
                            = [i \in 1 .. Depth(u) |-> Lent(calls[u][i])]
  BY <1>1 DEF CallsSame
<1>3. ASSUME NEW u \in Threads
      PROVE  [i \in 1 .. Depth(u) |-> Overrun(calls[u][i])]'
                = [i \in 1 .. Depth(u) |-> Overrun(calls[u][i])]
  <2>1. \A i \in 1 .. Depth(u) : (Overrun(calls[u][i]))' = Overrun(calls[u][i])
    <3>1. \A c : Overrun(c) \in BOOLEAN
      BY DEF Overrun
    <3>2. \A i : (Overrun(calls[u][i]))' \in BOOLEAN
      BY DEF Overrun
    <3>3. \A i \in 1 .. Depth(u) : (Overrun(calls[u][i]))' <=> Overrun(calls[u][i])
      BY DEF CallsSame
    <3>4. QED
      BY <3>1, <3>2, <3>3
  <2>2. QED
    BY <1>1, <2>1
<1>4. QED
  BY <1>2, <1>3 DEF lentBy, strayedBy

LEMMA LentIs ==
    ASSUME Separated, StackOK, NEW t \in Threads, NEW i \in 1 .. Depth(t)
    PROVE  /\ Lent(calls[t][i]) \subseteq Cells
           /\ \A j \in Nat : Held(t, i, j) /\ ObjectAt(t, i, j) # 0 =>
                 Extent(ObjectAt(t, i, j)) \subseteq Lent(calls[t][i])
<1>1. calls[t][i] \in CallType
  BY CallTyped
<1>2. PICK call \in CallType : call = calls[t][i]
  BY <1>1
<1>3. call.args \in Seq(Args) /\ DOMAIN call.args = 1 .. Len(call.args)
  BY DEF CallType
<1>4. \A j \in DOMAIN call.args : call.args[j].object # 0 => call.args[j].object \in 1 .. Objects
  BY <1>3, WindowIs
<1>5. \A o \in Passed(call) : o \in 1 .. Objects
  BY <1>4 DEF Passed
<1>6. Lent(call) \subseteq Cells
  BY <1>5, Apart DEF Lent
<1>7. ASSUME NEW j \in Nat, Held(t, i, j), ObjectAt(t, i, j) # 0
      PROVE  Extent(ObjectAt(t, i, j)) \subseteq Lent(calls[t][i])
  <2>1. ObjectAt(t, i, j) \in Passed(call)
    BY <1>2, <1>3, <1>7, PassedIs DEF Held, ObjectAt
  <2>2. QED
    BY <1>2, <2>1 DEF Lent
<1>8. QED
  BY <1>2, <1>6, <1>7

LEMMA MapsAre ==
    ASSUME Separated, StackOK
    PROVE  /\ lentBy \in [Threads -> Seq(SUBSET Cells)]
           /\ strayedBy \in [Threads -> Seq(BOOLEAN)]
           /\ \A t \in Threads :
                 /\ Len(lentBy[t]) = Depth(t) /\ Len(strayedBy[t]) = Depth(t) /\ Depth(t) \in Nat
                 /\ \A i \in 1 .. Depth(t) : /\ lentBy[t][i] = Lent(calls[t][i])
                                             /\ strayedBy[t][i] = Overrun(calls[t][i])
<1>1. ASSUME NEW t \in Threads
      PROVE  /\ lentBy[t] \in Seq(SUBSET Cells) /\ strayedBy[t] \in Seq(BOOLEAN)
             /\ Len(lentBy[t]) = Depth(t) /\ Len(strayedBy[t]) = Depth(t) /\ Depth(t) \in Nat
             /\ \A i \in 1 .. Depth(t) : /\ lentBy[t][i] = Lent(calls[t][i])
                                         /\ strayedBy[t][i] = Overrun(calls[t][i])
  <2>1. PICK n \in Nat : n = Depth(t)
    BY DEF StackOK, Depth
  <2>2. lentBy[t] = [i \in 1 .. n |-> Lent(calls[t][i])] /\ strayedBy[t] = [i \in 1 .. n |-> Overrun(calls[t][i])]
    BY <2>1 DEF lentBy, strayedBy
  <2>3. \A i \in 1 .. n : Lent(calls[t][i]) \in SUBSET Cells /\ Overrun(calls[t][i]) \in BOOLEAN
    BY <2>1, LentIs DEF Overrun
  <2>4. lentBy[t] \in [1 .. n -> SUBSET Cells] /\ strayedBy[t] \in [1 .. n -> BOOLEAN]
    BY <2>2, <2>3
  <2>5. /\ lentBy[t] \in Seq(SUBSET Cells) /\ strayedBy[t] \in Seq(BOOLEAN)
        /\ Len(lentBy[t]) = n /\ Len(strayedBy[t]) = n
    BY <2>4
  <2>6. QED
    BY <2>1, <2>2, <2>5
<1>2. lentBy = [t \in Threads |-> lentBy[t]] /\ strayedBy = [t \in Threads |-> strayedBy[t]]
  BY DEF lentBy, strayedBy
<1>3. QED
  BY <1>1, <1>2

-----------------------------------------------------------------------------
(* The steps of DirectCalls *)

Kept == [Direct!Next]_(Direct!vars)

LEMMA Stutters ==
    ASSUME View' = View, lentBy' = lentBy, strayedBy' = strayedBy, UNCHANGED process
    PROVE  Kept
BY DEF Kept, Direct!vars, lentBy, strayedBy, Up

LEMMA InnermostLent ==
    ASSUME Separated, StackOK, NEW t \in Threads, Depth(t) > 0
    PROVE  /\ lentBy[t] # <<>> /\ Last(lentBy[t]) = Lent(Top(t))
           /\ strayedBy[t] # <<>> /\ Last(strayedBy[t]) = Overrun(Top(t))
<1>1. PICK n \in Nat : n = Depth(t) /\ n > 0
  BY MapsAre
<1>2. PICK lent \in Seq(SUBSET Cells), strayed \in Seq(BOOLEAN) : lent = lentBy[t] /\ strayed = strayedBy[t]
  BY MapsAre
<1>3. Len(lent) = n /\ Len(strayed) = n /\ lent[n] = Lent(calls[t][n]) /\ strayed[n] = Overrun(calls[t][n])
  BY <1>1, <1>2, MapsAre
<1>4. Top(t) = calls[t][n]
  BY <1>1, TopFacts
<1>5. lent # <<>> /\ strayed # <<>> /\ Last(lent) = lent[n] /\ Last(strayed) = strayed[n]
  BY <1>1, <1>3 DEF Last
<1>6. QED
  BY <1>2, <1>3, <1>4, <1>5

LEMMA Writes ==
    ASSUME Separated, StackOK, Up, NEW t \in Threads, Depth(t) > 0, NEW c \in Lent(Top(t)),
           NEW v \in Values, View' = [View EXCEPT ![c] = v],
           lentBy' = lentBy, strayedBy' = strayedBy, UNCHANGED process
    PROVE  Kept
<1>1. lentBy[t] # <<>> /\ c \in Last(lentBy[t])
  BY InnermostLent
<1>2. Direct!LibraryWrites(t)
  BY <1>1 DEF Direct!LibraryWrites, Direct!Last, Last, lentBy, strayedBy, Up
<1>3. QED
  BY <1>2 DEF Kept, Direct!Next

LEMMA Strays ==
    ASSUME Separated, StackOK, Up, NEW t \in Threads, Depth(t) > 0,
           View' = View, lentBy' = lentBy,
           strayedBy' = [strayedBy EXCEPT ![t][Len(strayedBy[t])] = TRUE], UNCHANGED process
    PROVE  Kept
<1>1. lentBy[t] # <<>>
  BY InnermostLent
<1>2. Direct!Stray(t)
  BY <1>1 DEF Direct!Stray, lentBy, strayedBy, Up
<1>3. QED
  BY <1>2 DEF Kept, Direct!Next

LEMMA Lends ==
    ASSUME Up, NEW t \in Threads, NEW cells \in SUBSET Cells, View' = View,
           lentBy' = [lentBy EXCEPT ![t] = Append(lentBy[t], cells)],
           strayedBy' = [strayedBy EXCEPT ![t] = Append(strayedBy[t], FALSE)], UNCHANGED process
    PROVE  Kept
<1>1. Direct!Lend(t)
  BY DEF Direct!Lend, lentBy, strayedBy, Up
<1>2. QED
  BY <1>1 DEF Kept, Direct!Next

LEMMA TakesBack ==
    ASSUME Separated, StackOK, Up, NEW t \in Threads, Depth(t) > 0, ~Overrun(Top(t)), View' = View,
           lentBy' = [lentBy EXCEPT ![t] = Front(lentBy[t])],
           strayedBy' = [strayedBy EXCEPT ![t] = Front(strayedBy[t])], UNCHANGED process
    PROVE  Kept
<1>1. lentBy[t] # <<>> /\ ~Last(strayedBy[t])
  BY InnermostLent
<1>2. Direct!TakeBack(t)
  BY <1>1 DEF Direct!TakeBack, Direct!Last, Direct!Front, Last, Front, lentBy, strayedBy, Up
<1>3. QED
  BY <1>2 DEF Kept, Direct!Next

LEMMA Stops ==
    ASSUME Up, ~Up'
    PROVE  Kept
<1>1. Direct!Stop
  BY DEF Direct!Stop, Up
<1>2. QED
  BY <1>1 DEF Kept, Direct!Next

LEMMA WritesUnlent ==
    ASSUME Separated, StackOK, Up, NEW c \in Cells, NEW v \in Values, View' = [View EXCEPT ![c] = v],
           \A t \in Threads : \A i \in 1 .. Depth(t) : c \notin Lent(calls[t][i]),
           lentBy' = lentBy, strayedBy' = strayedBy, UNCHANGED process
    PROVE  Kept
<1>1. \A t \in Threads : \A i \in DOMAIN lentBy[t] : c \notin lentBy[t][i]
  <2>1. ASSUME NEW t \in Threads PROVE DOMAIN lentBy[t] = 1 .. Depth(t)
    BY DEF lentBy
  <2>2. QED
    BY <2>1, MapsAre
<1>2. Direct!ProgramWrites
  BY <1>1 DEF Direct!ProgramWrites, lentBy, strayedBy, Up
<1>3. QED
  BY <1>2 DEF Kept, Direct!Next

-----------------------------------------------------------------------------
(* What the steps do to the maps *)

MapsOK ==
    /\ lentBy \in [Threads -> Seq(SUBSET Cells)]
    /\ strayedBy \in [Threads -> Seq(BOOLEAN)]
    /\ \A t \in Threads :
          /\ Len(lentBy[t]) = Depth(t) /\ Len(strayedBy[t]) = Depth(t) /\ Depth(t) \in Nat
          /\ \A i \in 1 .. Depth(t) : /\ lentBy[t][i] = Lent(calls[t][i])
                                      /\ strayedBy[t][i] = Overrun(calls[t][i])

LEMMA MapsHold == Separated /\ StackOK => MapsOK
BY MapsAre DEF MapsOK

LEMMA LentOfArgs ==
    ASSUME NEW a, NEW b, a.args = b.args
    PROVE  Lent(a) = Lent(b)
BY DEF Lent, Passed

LEMMA LaterMaps ==
    /\ \A u, i : Lent(calls[u][i])' = Lent(calls'[u][i])
    /\ \A u, i : Overrun(calls[u][i])' <=> Overrun(calls'[u][i])
BY DEF Lent, Passed, Overrun

LEMMA StrayedLater == \A u, i : (Overrun(calls[u][i]))' = Overrun(calls'[u][i])
<1>1. \A c : Overrun(c) \in BOOLEAN
  BY DEF Overrun
<1>2. \A u, i : (Overrun(calls[u][i]))' \in BOOLEAN
  BY DEF Overrun
<1>3. QED
  BY <1>1, <1>2, LaterMaps

LEMMA AppendIs ==
    ASSUME NEW S, NEW s \in Seq(S), NEW r \in Seq(S), NEW e \in S, NEW n \in Nat,
           Len(s) = n, Len(r) = n + 1, r[n + 1] = e, \A i \in 1 .. n : r[i] = s[i]
    PROVE  r = Append(s, e)
<1>1. /\ Append(s, e) \in Seq(S) /\ Len(Append(s, e)) = n + 1
      /\ \A i \in 1 .. n : Append(s, e)[i] = s[i]
      /\ Append(s, e)[n + 1] = e
  OBVIOUS
<1>2. \A i \in 1 .. n + 1 : r[i] = Append(s, e)[i]
  BY <1>1
<1>3. QED
  BY <1>1, <1>2, SeqEqual

LEMMA SetMaps ==
    ASSUME StackOK, NEW t \in Threads, Depth(t) > 0, NEW call \in CallType, SetTop(t, call),
           call.args = Top(t).args, Overrun(call) <=> Overrun(Top(t))
    PROVE  lentBy' = lentBy /\ strayedBy' = strayedBy
<1>1. \A u \in Threads : Depth(u)' = Depth(u) /\ \A i \in 1 .. Depth(u) :
         calls'[u][i] = IF u = t /\ i = Depth(t) THEN call ELSE calls[u][i]
  BY AfterSet
<1>2. Top(t) = calls[t][Depth(t)]
  BY TopFacts
<1>3. Lent(call) = Lent(Top(t))
  BY LentOfArgs
<1>4. CallsSame
  BY <1>1, <1>2, <1>3, LaterMaps DEF CallsSame
<1>5. QED
  BY <1>4, MapsSame

LEMMA SetStrayed ==
    ASSUME Separated, StackOK, NEW t \in Threads, Depth(t) > 0, NEW call \in CallType, SetTop(t, call),
           call.args = Top(t).args, Overrun(call)
    PROVE  /\ lentBy' = lentBy
           /\ strayedBy' = [strayedBy EXCEPT ![t][Len(strayedBy[t])] = TRUE]
<1>1. StackOK' /\ \A u \in Threads : Depth(u)' = Depth(u) /\ \A i \in 1 .. Depth(u) :
         calls'[u][i] = IF u = t /\ i = Depth(t) THEN call ELSE calls[u][i]
  BY AfterSet
<1>2. MapsOK /\ MapsOK'
  <2>1. MapsOK
    BY MapsHold
  <2>2. MapsOK'
    BY <1>1, MapsHold, PTL
  <2>3. QED
    BY <2>1, <2>2
<1>3. Top(t) = calls[t][Depth(t)]
  BY TopFacts
<1>4. \A u \in Threads : \A i \in 1 .. Depth(u) : lentBy'[u][i] = lentBy[u][i]
  <2>1. Lent(call) = Lent(Top(t))
    BY LentOfArgs
  <2>2. \A u \in Threads : \A i \in 1 .. Depth(u) : Lent(calls'[u][i]) = Lent(calls[u][i])
    BY <1>1, <1>3, <2>1
  <2>3. \A u \in Threads : \A i \in 1 .. Depth(u) : lentBy'[u][i] = Lent(calls'[u][i])
    BY <1>1, <1>2, LaterMaps DEF MapsOK
  <2>4. QED
    BY <1>2, <2>2, <2>3 DEF MapsOK
<1>5. \A u \in Threads : lentBy'[u] = lentBy[u]
  <2>1. ASSUME NEW u \in Threads PROVE lentBy'[u] = lentBy[u]
    <3>1. PICK s \in Seq(SUBSET Cells), r \in Seq(SUBSET Cells) : s = lentBy'[u] /\ r = lentBy[u]
      BY <1>2 DEF MapsOK
    <3>2. Len(s) = Len(r) /\ \A i \in 1 .. Len(s) : s[i] = r[i]
      <4>1. Len(s) = Depth(u)' /\ Len(r) = Depth(u)
        BY <1>2, <3>1 DEF MapsOK
      <4>2. Len(s) = Depth(u) /\ \A i \in 1 .. Depth(u) : s[i] = r[i]
        BY <1>1, <1>4, <3>1, <4>1
      <4>3. QED
        BY <4>1, <4>2
    <3>3. QED
      BY <3>1, <3>2, SeqEqual
  <2>2. QED
    BY <2>1
<1>6. lentBy' = lentBy
  BY <1>2, <1>5 DEF MapsOK
<1>7. \A u \in Threads : \A i \in 1 .. Depth(u) :
         strayedBy'[u][i] = IF u = t /\ i = Depth(t) THEN TRUE ELSE strayedBy[u][i]
  <2>1. ASSUME NEW u \in Threads, NEW i \in 1 .. Depth(u)
        PROVE  strayedBy'[u][i] = IF u = t /\ i = Depth(t) THEN TRUE ELSE strayedBy[u][i]
    <3>1. \A c : Overrun(c) \in BOOLEAN
      BY DEF Overrun
    <3>2. strayedBy'[u][i] = Overrun(calls'[u][i]) /\ strayedBy[u][i] = Overrun(calls[u][i])
      <4>1. strayedBy'[u][i] = (Overrun(calls[u][i]))' /\ strayedBy[u][i] = Overrun(calls[u][i])
        BY <1>1, <1>2 DEF MapsOK
      <4>2. (Overrun(calls[u][i]))' \in BOOLEAN
        BY DEF Overrun
      <4>3. QED
        BY <3>1, <4>1, <4>2, LaterMaps
    <3>3. QED
      BY <1>1, <3>1, <3>2
  <2>2. QED
    BY <2>1
<1>8. PICK n \in Nat : n = Depth(t) /\ n = Len(strayedBy[t]) /\ n > 0
  BY <1>2 DEF MapsOK
<1>9. \A u \in Threads : strayedBy'[u] = IF u = t THEN [strayedBy[t] EXCEPT ![n] = TRUE] ELSE strayedBy[u]
  <2>1. ASSUME NEW u \in Threads
        PROVE  strayedBy'[u] = IF u = t THEN [strayedBy[t] EXCEPT ![n] = TRUE] ELSE strayedBy[u]
    <3>1. PICK s \in Seq(BOOLEAN), r \in Seq(BOOLEAN) : s = strayedBy'[u] /\ r = strayedBy[u]
      BY <1>2 DEF MapsOK
    <3>2. Len(s) = Len(r) /\ \A i \in 1 .. Len(s) : s[i] = IF u = t /\ i = n THEN TRUE ELSE r[i]
      <4>1. Len(s) = Depth(u)' /\ Len(r) = Depth(u)
        BY <1>2, <3>1 DEF MapsOK
      <4>2. Len(s) = Depth(u) /\ \A i \in 1 .. Depth(u) : s[i] = IF u = t /\ i = n THEN TRUE ELSE r[i]
        BY <1>1, <1>7, <1>8, <3>1, <4>1
      <4>3. QED
        BY <4>1, <4>2
    <3>3. CASE u # t
      BY <3>1, <3>2, <3>3, SeqEqual
    <3>4. CASE u = t
      <4>1. n \in 1 .. Len(r)
        BY <1>8, <3>1, <3>4
      <4>2. PICK q \in Seq(BOOLEAN) : q = [r EXCEPT ![n] = TRUE] /\ Len(q) = Len(r)
                                      /\ q[n] = TRUE /\ \A k \in 1 .. Len(r) : k # n => q[k] = r[k]
        <5>1. PICK true \in BOOLEAN : true = TRUE
          OBVIOUS
        <5>2. r \in [1 .. Len(r) -> BOOLEAN] /\ Len(r) \in Nat
          OBVIOUS
        <5>3. PICK q : q = [r EXCEPT ![n] = true]
          OBVIOUS
        <5>4. q \in [1 .. Len(r) -> BOOLEAN] /\ q[n] = true /\ \A k \in 1 .. Len(r) : k # n => q[k] = r[k]
          BY <4>1, <5>2, <5>3
        <5>5. q \in Seq(BOOLEAN) /\ Len(q) = Len(r)
          BY <5>2, <5>4
        <5>6. QED
          BY <5>1, <5>3, <5>4, <5>5
      <4>3. s = q
        BY <3>2, <3>4, <4>2, SeqEqual
      <4>4. QED
        BY <3>1, <3>4, <4>2, <4>3
    <3>5. QED
      BY <3>3, <3>4
  <2>2. QED
    BY <2>1
<1>10. strayedBy' = [strayedBy EXCEPT ![t] = [strayedBy[t] EXCEPT ![n] = TRUE]]
  BY <1>2, <1>9 DEF MapsOK
<1>11. QED
  BY <1>6, <1>8, <1>10

LEMMA AppendMaps ==
    ASSUME Separated, StackOK, NEW t \in Threads, NEW call \in CallType,
           calls' = [calls EXCEPT ![t] = Append(@, call)], ~Overrun(call)
    PROVE  /\ lentBy' = [lentBy EXCEPT ![t] = Append(lentBy[t], Lent(call))]
           /\ strayedBy' = [strayedBy EXCEPT ![t] = Append(strayedBy[t], FALSE)]
           /\ Lent(call) \in SUBSET Cells
<1>1. /\ StackOK'
      /\ \A u \in Threads :
            /\ Depth(u)' = IF u = t THEN Depth(t) + 1 ELSE Depth(u)
            /\ \A i \in 1 .. Depth(u) : calls'[u][i] = calls[u][i]
      /\ calls'[t][Depth(t) + 1] = call
  BY AfterAppend
<1>2. MapsOK /\ MapsOK'
  <2>1. MapsOK
    BY MapsHold
  <2>2. MapsOK'
    BY <1>1, MapsHold, PTL
  <2>3. QED
    BY <2>1, <2>2
<1>3. PICK n \in Nat : n = Depth(t)
  BY <1>2 DEF MapsOK
<1>4. Depth(t)' = n + 1 /\ calls'[t][n + 1] = call /\ n + 1 \in 1 .. n + 1
  <2>1. Depth(t)' = n + 1
    BY <1>1, <1>3
  <2>2. calls'[t][n + 1] = call
    BY <1>1, <1>3
  <2>3. n + 1 \in 1 .. n + 1
    OBVIOUS
  <2>4. QED
    BY <2>1, <2>2, <2>3
<1>5. ASSUME NEW u \in Threads
      PROVE  /\ lentBy'[u] \in Seq(SUBSET Cells) /\ lentBy[u] \in Seq(SUBSET Cells)
             /\ strayedBy'[u] \in Seq(BOOLEAN) /\ strayedBy[u] \in Seq(BOOLEAN)
             /\ Len(lentBy'[u]) = Depth(u)' /\ Len(lentBy[u]) = Depth(u)
             /\ Len(strayedBy'[u]) = Depth(u)' /\ Len(strayedBy[u]) = Depth(u)
             /\ \A i \in 1 .. Depth(u)' : /\ lentBy'[u][i] = Lent(calls'[u][i])
                                          /\ strayedBy'[u][i] = Overrun(calls'[u][i])
             /\ \A i \in 1 .. Depth(u) : /\ lentBy[u][i] = Lent(calls[u][i])
                                         /\ strayedBy[u][i] = Overrun(calls[u][i])
             /\ \A i \in 1 .. Depth(u) : calls'[u][i] = calls[u][i]
             /\ Depth(u)' = (IF u = t THEN n + 1 ELSE Depth(u)) /\ Depth(u) \in Nat
  <2>1. \A i \in 1 .. Depth(u)' : lentBy'[u][i] = Lent(calls'[u][i])
    BY <1>2, LaterMaps DEF MapsOK
  <2>2. \A i \in 1 .. Depth(u)' : strayedBy'[u][i] = Overrun(calls'[u][i])
    BY <1>2, StrayedLater DEF MapsOK
  <2>3. /\ \A i \in 1 .. Depth(u) : calls'[u][i] = calls[u][i]
        /\ Depth(u)' = (IF u = t THEN n + 1 ELSE Depth(u))
    BY <1>1, <1>3
  <2>4. /\ lentBy'[u] \in Seq(SUBSET Cells) /\ strayedBy'[u] \in Seq(BOOLEAN)
        /\ Len(lentBy'[u]) = Depth(u)' /\ Len(strayedBy'[u]) = Depth(u)'
    BY <1>2 DEF MapsOK
  <2>5. /\ lentBy[u] \in Seq(SUBSET Cells) /\ strayedBy[u] \in Seq(BOOLEAN) /\ Depth(u) \in Nat
        /\ Len(lentBy[u]) = Depth(u) /\ Len(strayedBy[u]) = Depth(u)
        /\ \A i \in 1 .. Depth(u) : /\ lentBy[u][i] = Lent(calls[u][i])
                                    /\ strayedBy[u][i] = Overrun(calls[u][i])
    BY <1>2 DEF MapsOK
  <2>6. QED
    BY <2>1, <2>2, <2>3, <2>4, <2>5
<1>6. \A u \in Threads : u # t => lentBy'[u] = lentBy[u] /\ strayedBy'[u] = strayedBy[u]
  <2>1. ASSUME NEW u \in Threads, u # t PROVE lentBy'[u] = lentBy[u] /\ strayedBy'[u] = strayedBy[u]
    <3>1. PICK m \in Nat : m = Depth(u) /\ m = Depth(u)'
      BY <1>5, <2>1
    <3>2. PICK s \in Seq(SUBSET Cells), r \in Seq(SUBSET Cells) :
             s = lentBy'[u] /\ r = lentBy[u] /\ Len(s) = m /\ Len(r) = m
      BY <1>5, <3>1
    <3>3. PICK p \in Seq(BOOLEAN), q \in Seq(BOOLEAN) :
             p = strayedBy'[u] /\ q = strayedBy[u] /\ Len(p) = m /\ Len(q) = m
      BY <1>5, <3>1
    <3>4. ASSUME NEW i \in 1 .. m PROVE s[i] = r[i] /\ p[i] = q[i]
      <4>1. i \in 1 .. Depth(u) /\ i \in 1 .. Depth(u)'
        BY <3>1
      <4>2. calls'[u][i] = calls[u][i]
        BY <1>5, <4>1
      <4>3. s[i] = Lent(calls'[u][i]) /\ r[i] = Lent(calls[u][i])
        BY <1>5, <3>2, <4>1
      <4>4. p[i] = Overrun(calls'[u][i]) /\ q[i] = Overrun(calls[u][i])
        BY <1>5, <3>3, <4>1, Zenon
      <4>5. QED
        BY <4>2, <4>3, <4>4, Zenon
    <3>5. s = r /\ p = q
      BY <3>2, <3>3, <3>4, SeqEqual
    <3>6. QED
      BY <3>2, <3>3, <3>5
  <2>2. QED
    BY <2>1
<1>7. PICK s \in Seq(SUBSET Cells), r \in Seq(SUBSET Cells), p \in Seq(BOOLEAN), q \in Seq(BOOLEAN) :
         /\ s = lentBy[t] /\ r = lentBy'[t] /\ p = strayedBy[t] /\ q = strayedBy'[t]
         /\ Len(s) = n /\ Len(r) = n + 1 /\ Len(p) = n /\ Len(q) = n + 1
  BY <1>3, <1>4, <1>5
<1>8. \A i \in 1 .. n : r[i] = s[i] /\ q[i] = p[i]
  <2>1. ASSUME NEW i \in 1 .. n PROVE r[i] = s[i] /\ q[i] = p[i]
    <3>1. i \in 1 .. Depth(t) /\ i \in 1 .. Depth(t)'
      BY <1>3, <1>4
    <3>2. calls'[t][i] = calls[t][i]
      BY <1>5, <3>1
    <3>3. r[i] = Lent(calls'[t][i]) /\ s[i] = Lent(calls[t][i])
      BY <1>5, <1>7, <3>1
    <3>4. q[i] = Overrun(calls'[t][i]) /\ p[i] = Overrun(calls[t][i])
      BY <1>5, <1>7, <3>1, Zenon
    <3>5. QED
      BY <3>2, <3>3, <3>4, Zenon
  <2>2. QED
    BY <2>1
<1>9. r[n + 1] = Lent(call) /\ q[n + 1] = FALSE
  <2>1. n + 1 \in 1 .. Depth(t)'
    BY <1>4
  <2>2. r[n + 1] = Lent(call)
    <3>1. r[n + 1] = Lent(calls'[t][n + 1])
      BY <1>5, <1>7, <2>1, Zenon
    <3>2. QED
      BY <1>4, <3>1
  <2>3. q[n + 1] = Overrun(calls'[t][n + 1])
    BY <1>5, <1>7, <2>1, Zenon
  <2>4. \A c : Overrun(c) \in BOOLEAN
    BY DEF Overrun
  <2>5. q[n + 1] = FALSE
    BY <1>4, <2>3, <2>4
  <2>6. QED
    BY <2>2, <2>5
<1>10. Lent(call) \in SUBSET Cells
  BY <1>4, <1>7, <1>9
<1>11. r = Append(s, Lent(call)) /\ q = Append(p, FALSE)
  <2>1. PICK cells \in SUBSET Cells, strayed \in BOOLEAN : cells = Lent(call) /\ strayed = FALSE
    BY <1>10
  <2>2. r = Append(s, cells)
    BY <1>7, <1>8, <1>9, <2>1, AppendIs
  <2>3. q = Append(p, strayed)
    BY <1>7, <1>8, <1>9, <2>1, AppendIs
  <2>4. QED
    BY <2>1, <2>2, <2>3
<1>12. /\ lentBy' = [lentBy EXCEPT ![t] = Append(lentBy[t], Lent(call))]
       /\ strayedBy' = [strayedBy EXCEPT ![t] = Append(strayedBy[t], FALSE)]
  <2>1. \A u \in Threads : lentBy'[u] = IF u = t THEN Append(lentBy[t], Lent(call)) ELSE lentBy[u]
    BY <1>6, <1>7, <1>11
  <2>2. \A u \in Threads : strayedBy'[u] = IF u = t THEN Append(strayedBy[t], FALSE) ELSE strayedBy[u]
    BY <1>6, <1>7, <1>11
  <2>3. QED
    BY <1>2, <2>1, <2>2 DEF MapsOK
<1>13. QED
  BY <1>10, <1>12

LEMMA FrontIs ==
    ASSUME NEW S, NEW s \in Seq(S), NEW r \in Seq(S), NEW n \in Nat,
           Len(s) = n + 1, Len(r) = n, \A i \in 1 .. n : r[i] = s[i]
    PROVE  r = Front(s)
<1>1. Front(s) = SubSeq(s, 1, n)
  BY DEF Front
<1>2. \A i \in 1 .. n : s[i] \in S
  OBVIOUS
<1>3. SubSeq(s, 1, n) \in Seq(S) /\ Len(SubSeq(s, 1, n)) = n /\ \A i \in 1 .. n : SubSeq(s, 1, n)[i] = s[i]
  <2>1. /\ SubSeq(s, 1, n) \in Seq(S)
        /\ Len(SubSeq(s, 1, n)) = IF 1 <= n THEN n - 1 + 1 ELSE 0
        /\ \A i \in 1 .. n - 1 + 1 : SubSeq(s, 1, n)[i] = s[1 + i - 1]
    BY <1>2, 1 \in Int, SubSeqProperties
  <2>2. QED
    BY <2>1
<1>4. r = SubSeq(s, 1, n)
  BY <1>3, SeqEqual
<1>5. QED
  BY <1>1, <1>4

LEMMA FrontMaps ==
    ASSUME Separated, StackOK, NEW t \in Threads, Depth(t) > 0, calls' = [calls EXCEPT ![t] = Front(@)]
    PROVE  /\ lentBy' = [lentBy EXCEPT ![t] = Front(lentBy[t])]
           /\ strayedBy' = [strayedBy EXCEPT ![t] = Front(strayedBy[t])]
<1>1. /\ StackOK'
      /\ \A u \in Threads :
            /\ Depth(u)' = IF u = t THEN Depth(t) - 1 ELSE Depth(u)
            /\ \A i \in 1 .. Depth(u)' : i \in 1 .. Depth(u) /\ calls'[u][i] = calls[u][i]
  BY AfterFront
<1>2. MapsOK /\ MapsOK'
  <2>1. MapsOK
    BY MapsHold
  <2>2. MapsOK'
    BY <1>1, MapsHold, PTL
  <2>3. QED
    BY <2>1, <2>2
<1>3. PICK n \in Nat : n + 1 = Depth(t)
  <2>1. Depth(t) \in Nat
    BY <1>2 DEF MapsOK
  <2>2. Depth(t) - 1 \in Nat /\ Depth(t) - 1 + 1 = Depth(t)
    BY <2>1
  <2>3. QED
    BY <2>2
<1>4. Depth(t)' = n
  BY <1>1, <1>3
<1>5. ASSUME NEW u \in Threads
      PROVE  /\ lentBy'[u] \in Seq(SUBSET Cells) /\ lentBy[u] \in Seq(SUBSET Cells)
             /\ strayedBy'[u] \in Seq(BOOLEAN) /\ strayedBy[u] \in Seq(BOOLEAN)
             /\ Len(lentBy'[u]) = Depth(u)' /\ Len(lentBy[u]) = Depth(u)
             /\ Len(strayedBy'[u]) = Depth(u)' /\ Len(strayedBy[u]) = Depth(u)
             /\ \A i \in 1 .. Depth(u)' : lentBy'[u][i] = lentBy[u][i] /\ strayedBy'[u][i] = strayedBy[u][i]
             /\ Depth(u)' = (IF u = t THEN n ELSE Depth(u)) /\ Depth(u) \in Nat
  <2>1. ASSUME NEW i \in 1 .. Depth(u)' PROVE lentBy'[u][i] = lentBy[u][i] /\ strayedBy'[u][i] = strayedBy[u][i]
    <3>1. i \in 1 .. Depth(u) /\ calls'[u][i] = calls[u][i]
      BY <1>1
    <3>2. lentBy'[u][i] = Lent(calls'[u][i])
      BY <1>2, LaterMaps DEF MapsOK
    <3>3. strayedBy'[u][i] = Overrun(calls'[u][i])
      BY <1>2, StrayedLater DEF MapsOK
    <3>4. lentBy[u][i] = Lent(calls[u][i]) /\ strayedBy[u][i] = Overrun(calls[u][i])
      BY <1>2, <3>1 DEF MapsOK
    <3>5. QED
      BY <3>1, <3>2, <3>3, <3>4, Zenon
  <2>2. Depth(u)' = (IF u = t THEN n ELSE Depth(u))
    BY <1>1, <1>4
  <2>3. /\ lentBy'[u] \in Seq(SUBSET Cells) /\ strayedBy'[u] \in Seq(BOOLEAN)
        /\ Len(lentBy'[u]) = Depth(u)' /\ Len(strayedBy'[u]) = Depth(u)'
    BY <1>2 DEF MapsOK
  <2>4. /\ lentBy[u] \in Seq(SUBSET Cells) /\ strayedBy[u] \in Seq(BOOLEAN) /\ Depth(u) \in Nat
        /\ Len(lentBy[u]) = Depth(u) /\ Len(strayedBy[u]) = Depth(u)
    BY <1>2 DEF MapsOK
  <2>5. QED
    BY <2>1, <2>2, <2>3, <2>4
<1>6. ASSUME NEW u \in Threads, NEW m \in Nat, m = Depth(u)'
      PROVE  \E s \in Seq(SUBSET Cells), r \in Seq(SUBSET Cells), p \in Seq(BOOLEAN), q \in Seq(BOOLEAN) :
                /\ s = lentBy[u] /\ r = lentBy'[u] /\ p = strayedBy[u] /\ q = strayedBy'[u]
                /\ Len(s) = Depth(u) /\ Len(r) = m /\ Len(p) = Depth(u) /\ Len(q) = m
                /\ \A i \in 1 .. m : r[i] = s[i] /\ q[i] = p[i]
  <2>1. PICK s \in Seq(SUBSET Cells), r \in Seq(SUBSET Cells) :
           s = lentBy[u] /\ r = lentBy'[u] /\ Len(s) = Depth(u) /\ Len(r) = m
    BY <1>5, <1>6
  <2>2. PICK p \in Seq(BOOLEAN), q \in Seq(BOOLEAN) :
           p = strayedBy[u] /\ q = strayedBy'[u] /\ Len(p) = Depth(u) /\ Len(q) = m
    BY <1>5, <1>6
  <2>3. ASSUME NEW i \in 1 .. m PROVE r[i] = s[i] /\ q[i] = p[i]
    <3>1. i \in 1 .. Depth(u)'
      BY <1>6
    <3>2. QED
      BY <1>5, <2>1, <2>2, <3>1, Zenon
  <2>4. QED
    BY <2>1, <2>2, <2>3
<1>7. \A u \in Threads : u # t => lentBy'[u] = lentBy[u] /\ strayedBy'[u] = strayedBy[u]
  <2>1. ASSUME NEW u \in Threads, u # t PROVE lentBy'[u] = lentBy[u] /\ strayedBy'[u] = strayedBy[u]
    <3>1. PICK m \in Nat : m = Depth(u) /\ m = Depth(u)'
      BY <1>5, <2>1
    <3>2. PICK s \in Seq(SUBSET Cells), r \in Seq(SUBSET Cells), p \in Seq(BOOLEAN), q \in Seq(BOOLEAN) :
             /\ s = lentBy[u] /\ r = lentBy'[u] /\ p = strayedBy[u] /\ q = strayedBy'[u]
             /\ Len(s) = Depth(u) /\ Len(r) = m /\ Len(p) = Depth(u) /\ Len(q) = m
             /\ \A i \in 1 .. m : r[i] = s[i] /\ q[i] = p[i]
      BY <1>6, <3>1
    <3>3. s = r /\ p = q
      BY <3>1, <3>2, SeqEqual
    <3>4. QED
      BY <3>2, <3>3
  <2>2. QED
    BY <2>1
<1>8. lentBy'[t] = Front(lentBy[t]) /\ strayedBy'[t] = Front(strayedBy[t])
  <2>1. PICK s \in Seq(SUBSET Cells), r \in Seq(SUBSET Cells), p \in Seq(BOOLEAN), q \in Seq(BOOLEAN) :
           /\ s = lentBy[t] /\ r = lentBy'[t] /\ p = strayedBy[t] /\ q = strayedBy'[t]
           /\ Len(s) = n + 1 /\ Len(r) = n /\ Len(p) = n + 1 /\ Len(q) = n
           /\ \A i \in 1 .. n : r[i] = s[i] /\ q[i] = p[i]
    BY <1>3, <1>4, <1>6
  <2>2. r = Front(s) /\ q = Front(p)
    BY <2>1, FrontIs
  <2>3. QED
    BY <2>1, <2>2
<1>9. QED
  BY <1>2, <1>7, <1>8 DEF MapsOK

-----------------------------------------------------------------------------
(* Every step is one of DirectCalls *)

LEMMA Views ==
    ASSUME Separated, FfiInv, SeparateOK, FfiInv', SeparateOK'
    PROVE  ViewOK /\ ViewOK'
<1>1. ViewOK
  BY ViewIs
<1>2. ViewOK'
  BY ViewIs, PTL
<1>3. QED
  BY <1>1, <1>2

LEMMA BeginCallKept ==
    ASSUME Separated, FfiInv, SeparateOK, Up, NEW t \in Threads, BeginCall(t)
    PROVE  SeparateOK' /\ Kept
<1>1. StackOK
  BY DEF FfiInv
<1>2. PICK n \in 1 .. MaxArgs : \E args \in [1 .. n -> Args] :
         /\ Separate(args)
         /\ calls' = [calls EXCEPT ![t] =
                Append(@, [args |-> args, given |-> [j \in 1 .. n |-> Gone], stage |-> "in", next |-> 1])]
  BY DEF BeginCall, Separated
<1>3. PICK args \in [1 .. n -> Args] :
         /\ Separate(args)
         /\ calls' = [calls EXCEPT ![t] =
                Append(@, [args |-> args, given |-> [j \in 1 .. n |-> Gone], stage |-> "in", next |-> 1])]
  BY <1>2
<1>4. PICK given : given = [j \in 1 .. n |-> Gone]
  OBVIOUS
<1>5. PICK call : call = [args |-> args, given |-> given, stage |-> "in", next |-> 1]
  OBVIOUS
<1>6. n \in Nat /\ Gone \in Given
  BY FfiAssumption DEF Given
<1>7. args \in Seq(Args) /\ given \in Seq(Given) /\ DOMAIN given = 1 .. n /\ \A j \in 1 .. n : given[j] = Gone
  <2>1. args \in Seq(Args)
    BY <1>6
  <2>2. given \in [1 .. n -> Given] /\ \A j \in 1 .. n : given[j] = Gone
    BY <1>4, <1>6
  <2>3. given \in Seq(Given)
    BY <1>6, <2>2
  <2>4. QED
    BY <2>1, <2>2, <2>3
<1>8. /\ call \in CallType /\ call.given = given /\ call.args = args
      /\ calls' = [calls EXCEPT ![t] = Append(@, call)]
  BY <1>3, <1>4, <1>5, <1>7 DEF CallType, CallStages
<1>9. ~Overrun(call) /\ \A j \in 1 .. Len(call.given) : call.given[j].kind # "copy"
  <2>1. \A j \in DOMAIN call.given : call.given[j].kind # "copy"
    BY <1>7, <1>8 DEF Gone
  <2>2. DOMAIN call.given = 1 .. Len(call.given)
    BY <1>8 DEF CallType
  <2>3. QED
    BY <2>1, <2>2 DEF Overrun
<1>10. SeparateOK'
  <2>1. Passed([args |-> args]) = Passed(call)
    BY <1>8 DEF Passed
  <2>2. /\ \A j, k \in DOMAIN call.args :
              j # k /\ call.args[j] # NullArg => call.args[j].object # call.args[k].object
        /\ \A f \in Frames : Passed(call) \cap Passed(calls[f[1]][f[2]]) = {}
    BY <1>3, <1>8, <2>1 DEF Separate
  <2>3. QED
    BY <1>1, <1>8, <2>2, BeginSeparate
<1>11. View' = View
  <2>1. Copies' = Copies /\ UNCHANGED memory
    BY <1>1, <1>8, <1>9, AppendCopies DEF BeginCall
  <2>2. QED
    BY <2>1 DEF View
<1>12. /\ lentBy' = [lentBy EXCEPT ![t] = Append(lentBy[t], Lent(call))]
       /\ strayedBy' = [strayedBy EXCEPT ![t] = Append(strayedBy[t], FALSE)]
       /\ Lent(call) \in SUBSET Cells
  BY <1>1, <1>8, <1>9, AppendMaps
<1>13. UNCHANGED process
  BY DEF BeginCall
<1>14. QED
  BY <1>10, <1>11, <1>12, <1>13, Lends

\* The innermost call is given something else for its j-th argument.
LEMMA GivenCall ==
    ASSUME StackOK, NEW t \in Threads, Depth(t) > 0, NEW j \in 1 .. Len(Top(t).given),
           NEW g \in Given, NEW n \in Nat, SetTop(t, [Top(t) EXCEPT !.given[j] = g, !.next = n])
    PROVE  \E call \in CallType :
              /\ SetTop(t, call) /\ call.args = Top(t).args
              /\ Overrun(call) <=> \/ g.kind = "copy" /\ ~g.canary
                                   \/ \E k \in 1 .. Len(Top(t).given) :
                                         /\ k # j /\ Top(t).given[k].kind = "copy"
                                         /\ ~Top(t).given[k].canary
<1>1. PICK top \in CallType : top = Top(t)
  BY TopFacts
<1>2. PICK s \in Seq(Given) : s = top.given
  BY DEF CallType
<1>3. PICK given \in Seq(Given) : given = [s EXCEPT ![j] = g] /\ Len(given) = Len(s)
                                  /\ given[j] = g /\ \A k \in 1 .. Len(s) : k # j => given[k] = s[k]
  <2>1. j \in 1 .. Len(s)
    BY <1>1, <1>2
  <2>2. /\ [s EXCEPT ![j] = g] \in Seq(Given) /\ Len([s EXCEPT ![j] = g]) = Len(s)
        /\ [s EXCEPT ![j] = g][j] = g
        /\ \A k \in 1 .. Len(s) : k # j => [s EXCEPT ![j] = g][k] = s[k]
    BY <2>1, EntrySet
  <2>3. PICK given : given = [s EXCEPT ![j] = g]
    OBVIOUS
  <2>4. QED
    BY <2>2, <2>3
<1>4. PICK call \in CallType : call = [top EXCEPT !.given = given, !.next = n]
  BY DEF CallType
<1>5. call.given = given /\ call.args = top.args
  BY <1>4 DEF CallType
<1>6. [Top(t) EXCEPT !.given[j] = g, !.next = n] = call
  BY <1>1, <1>2, <1>3, <1>4 DEF CallType
<1>7. SetTop(t, call)
  BY <1>6
<1>8. DOMAIN given = 1 .. Len(s) /\ j \in 1 .. Len(s)
  BY <1>1, <1>2, <1>3
<1>9. Overrun(call) <=> \/ g.kind = "copy" /\ ~g.canary
                        \/ \E k \in 1 .. Len(s) : k # j /\ s[k].kind = "copy" /\ ~s[k].canary
  <2>1. Overrun(call) <=> \E k \in 1 .. Len(s) : given[k].kind = "copy" /\ ~given[k].canary
    BY <1>5, <1>8 DEF Overrun
  <2>2. QED
    BY <1>3, <1>8, <2>1
<1>10. QED
  BY <1>1, <1>2, <1>5, <1>7, <1>9

LEMMA StagesKept ==
    ASSUME FfiInv, SeparateOK, NEW t \in Threads,
           Enter(t) \/ Leave(t) \/ CallBack(t) \/ CallbackReturns(t)
    PROVE  SeparateOK' /\ Kept
<1>1. StackOK /\ CallsOK
  BY DEF FfiInv
<1>2. Depth(t) > 0
  BY DEF Enter, Leave, CallBack, CallbackReturns, At
<1>3. PICK top \in CallType : top = Top(t)
  BY <1>1, <1>2, TopFacts
<1>4. PICK call \in CallType : SetTop(t, call) /\ call.args = top.args /\ call.given = top.given
  <2>1. CASE Leave(t)
    <3>1. PICK call \in CallType : call = [top EXCEPT !.stage = "out", !.next = 1]
      BY DEF CallType, CallStages
    <3>2. SetTop(t, call) /\ call.args = top.args /\ call.given = top.given
      BY <1>3, <2>1, <3>1 DEF Leave, CallType
    <3>3. QED
      BY <3>2
  <2>2. CASE Enter(t) \/ CallBack(t) \/ CallbackReturns(t)
    <3>1. PICK stage \in Busy : SetTop(t, [Top(t) EXCEPT !.stage = stage])
      BY <2>2 DEF Enter, CallBack, CallbackReturns, Busy
    <3>2. PICK call \in CallType : call = [top EXCEPT !.stage = stage]
      BY DEF CallType, CallStages, Busy
    <3>3. SetTop(t, call) /\ call.args = top.args /\ call.given = top.given
      BY <1>3, <3>1, <3>2 DEF CallType
    <3>4. QED
      BY <3>3
  <2>3. QED
    BY <2>1, <2>2
<1>5. SeparateOK'
  BY <1>1, <1>2, <1>3, <1>4, SetSeparate
<1>6. Copies' = Copies /\ UNCHANGED <<memory, process>>
  BY <1>1, <1>2, <1>3, <1>4, StageCopies DEF Enter, Leave, CallBack, CallbackReturns
<1>7. View' = View
  BY <1>6 DEF View
<1>8. Overrun(call) <=> Overrun(Top(t))
  BY <1>3, <1>4 DEF Overrun
<1>9. lentBy' = lentBy /\ strayedBy' = strayedBy
  BY <1>1, <1>2, <1>3, <1>4, <1>8, SetMaps
<1>10. QED
  BY <1>5, <1>6, <1>7, <1>9, Stutters

\* An argument is given, or taken back, without that anything strays.
LEMMA GiveMaps ==
    ASSUME StackOK, CallsOK, SeparateOK, NEW t \in Threads, Depth(t) > 0, NEW j \in 1 .. Len(Top(t).given),
           j = Top(t).next, NEW g \in Given, Give(t, g), g.kind = "copy" => g.canary,
           Top(t).given[j].kind = "copy" => Top(t).given[j].canary
    PROVE  SeparateOK' /\ lentBy' = lentBy /\ strayedBy' = strayedBy
<1>1. PICK top \in CallType : top = Top(t)
  BY TopFacts
<1>2. PICK n \in Nat : n = top.next + 1
  BY DEF CallType
<1>3. SetTop(t, [Top(t) EXCEPT !.given[j] = g, !.next = n])
  <2>1. [Top(t) EXCEPT !.given[Top(t).next] = g, !.next = @ + 1] = [Top(t) EXCEPT !.given[j] = g, !.next = n]
    BY <1>1, <1>2 DEF CallType
  <2>2. QED
    BY <2>1 DEF Give
<1>4. PICK call \in CallType :
         /\ SetTop(t, call) /\ call.args = Top(t).args
         /\ Overrun(call) <=> \/ g.kind = "copy" /\ ~g.canary
                              \/ \E k \in 1 .. Len(Top(t).given) :
                                    /\ k # j /\ Top(t).given[k].kind = "copy"
                                    /\ ~Top(t).given[k].canary
  BY <1>3, GivenCall
<1>5. Overrun(Top(t)) <=> \E k \in 1 .. Len(Top(t).given) :
                             Top(t).given[k].kind = "copy" /\ ~Top(t).given[k].canary
  <2>1. DOMAIN Top(t).given = 1 .. Len(Top(t).given)
    BY <1>1 DEF CallType
  <2>2. QED
    BY <2>1 DEF Overrun
<1>6. Overrun(call) <=> Overrun(Top(t))
  BY <1>4, <1>5
<1>7. QED
  BY <1>4, <1>6, SetMaps, SetSeparate

LEMMA SandboxInKept ==
    ASSUME Separated, FfiInv, FfiInv', SeparateOK, NEW t \in Threads, SandboxIn(t)
    PROVE  SeparateOK' /\ Kept
<1>1. StackOK /\ CallsOK /\ DataOK /\ FlagOK
  BY FlagIs DEF FfiInv
<1>2. /\ Depth(t) > 0 /\ At(t, "in") /\ ArgumentsLeft(t) /\ Top(t).stage = "in"
      /\ Top(t) \in CallType /\ CallOK(Top(t)) /\ Top(t) = calls[t][Depth(t)]
      /\ UNCHANGED <<memory, process, in_ffi_call>>
  BY <1>1, TopFacts DEF SandboxIn, At, Top, CallsOK
<1>3. PICK j \in 1 .. Len(Top(t).given), a \in Args :
         j = Top(t).next /\ a = Top(t).args[j] /\ j <= Len(Top(t).args)
  <2>1. /\ Top(t).args \in Seq(Args) /\ Top(t).next \in 1 .. Len(Top(t).args) /\ Top(t).next \in Nat
        /\ Len(Top(t).args) = Len(Top(t).given)
    BY <1>2 DEF CallType, CallOK, ArgumentsLeft
  <2>2. QED
    BY <2>1
<1>4. Top(t).given[j].kind # "copy" /\ \A d \in Copies : d.of # <<<<t, Depth(t)>>, j>>
  <2>1. Top(t).next <= Len(Top(t).args) /\ Top(t).given[Top(t).next].kind # "copy"
    BY <1>2, <1>3 DEF ArgumentsLeft, CallOK, CallType
  <2>2. QED
    BY <1>1, <1>2, <1>3, <2>1, NoCopyThere
<1>5. CASE \E g \in {Raw, NullGiven} : Give(t, g)
  <2>1. PICK g \in {Raw, NullGiven} : Give(t, g)
    BY <1>5
  <2>2. g \in Given /\ g.kind # "copy"
    BY DEF Given, Raw, NullGiven
  <2>3. Copies' = Copies
    <3>1. \A d : d \in Copies' <=> d \in Copies /\ d.of # <<<<t, Depth(t)>>, Top(t).next>>
      BY <1>1, <1>2, <2>1, <2>2, GiveKeeps
    <3>2. QED
      BY <1>3, <1>4, <3>1
  <2>4. View' = View
    BY <1>2, <2>3 DEF View
  <2>5. SeparateOK' /\ lentBy' = lentBy /\ strayedBy' = strayedBy
    BY <1>1, <1>2, <1>3, <1>4, <2>1, <2>2, GiveMaps
  <2>6. QED
    BY <1>2, <2>4, <2>5, Stutters
<1>6. CASE Give(t, Copy(DataOf(a))) /\ a.size > 0
  <2>1. PICK g : g = Copy(DataOf(a))
    OBVIOUS
  <2>2. DataOf(a) \in [Window(a) -> Values]
    <3>1. AnyValue \in Values
      BY FfiAssumption DEF AnyValue
    <3>2. QED
      BY <1>1, <3>1 DEF DataOf, DataOK
  <2>3. g.kind = "copy" /\ g.data = DataOf(a) /\ g \in Given /\ g.canary
    BY <2>1, <2>2 DEF Copy, Given
  <2>4. PICK e : e = [of |-> <<<<t, Depth(t)>>, j>>, data |-> g.data]
    OBVIOUS
  <2>5. \A d : d \in Copies' <=> \/ d \in Copies /\ d.of # <<<<t, Depth(t)>>, j>>
                                 \/ d = e
    BY <1>1, <1>2, <1>3, <1>6, <2>1, <2>2, <2>3, <2>4, GiveKeeps
  <2>6. Copies' = Copies \cup {e}
    BY <1>4, <2>4, <2>5
  <2>7. SeparateOK' /\ lentBy' = lentBy /\ strayedBy' = strayedBy
    BY <1>1, <1>2, <1>3, <1>4, <1>6, <2>1, <2>3, GiveMaps
  <2>8. ViewOK /\ ViewOK'
    BY <2>7, Views
  <2>9. Held(t, Depth(t), j) /\ ObjectAt(t, Depth(t), j) = a.object /\ Depth(t) \in Nat /\ j \in Nat
    BY <1>1, <1>2, <1>3, TopFacts DEF Held, ObjectAt, StackOK, Depth, CallType
  <2>10. a.object # 0 /\ Window(a) = Extent(a.object) /\ Window(a) \subseteq Cells
    BY <1>6, WindowIs, Apart
  <2>11. ASSUME NEW c \in Cells PROVE View'[c] = View[c]
    <3>1. CASE c \in Window(a)
      <4>1. \A d \in Copies : c \notin DOMAIN d.data
        BY <1>4, <2>9, <2>10, <3>1, CoverPlace
      <4>2. View[c] = memory[c]
        BY <2>8, <4>1 DEF ViewOK
      <4>3. e \in Copies' /\ c \in DOMAIN e.data /\ e.data[c] = memory[c]
        BY <2>3, <2>4, <2>6, <3>1 DEF DataOf
      <4>4. View'[c] = e.data[c]
        BY <2>8, <4>3 DEF ViewOK
      <4>5. QED
        BY <4>2, <4>3, <4>4
    <3>2. CASE c \notin Window(a)
      <4>1. c \notin DOMAIN e.data
        BY <2>2, <2>3, <2>4, <3>2
      <4>2. CASE \E d \in Copies : c \in DOMAIN d.data
        BY <2>6, <2>8, <4>2 DEF ViewOK
      <4>3. CASE \A d \in Copies : c \notin DOMAIN d.data
        BY <1>2, <2>6, <2>8, <4>1, <4>3 DEF ViewOK
      <4>4. QED
        BY <4>2, <4>3
    <3>3. QED
      BY <3>1, <3>2
  <2>12. View' = View
    BY <2>8, <2>11, SameView
  <2>13. QED
    BY <1>2, <2>7, <2>12, Stutters
<1>7. QED
  BY <1>3, <1>5, <1>6 DEF SandboxIn

LEMMA NothingHeld ==
    ASSUME calls' = [t \in Threads |-> <<>>]
    PROVE  SeparateOK'
<1>1. ASSUME NEW t \in Threads, NEW i \in Nat, NEW j \in Nat PROVE ~Held(t, i, j)'
  <2>1. PICK empty : empty = <<>>
    OBVIOUS
  <2>2. calls'[t] = empty /\ Len(empty) = 0
    BY <2>1, NoCalls
  <2>3. Depth(t)' = 0
    BY <2>2 DEF Depth
  <2>4. i \notin 1 .. Depth(t)'
    BY <2>3, NoPlaces
  <2>5. QED
    BY <2>4 DEF Held
<1>2. QED
  BY <1>1 DEF SeparateOK

LEMMA AbortKept ==
    ASSUME Up, NEW message \in {"overrun", "library fault", "stack overflow"}, Abort(message)
    PROVE  SeparateOK' /\ Kept
<1>1. SeparateOK'
  BY NothingHeld DEF Abort, Cleared
<1>2. ~Up'
  BY DEF Abort, Up
<1>3. QED
  BY <1>1, <1>2, Stops

LEMMA SandboxOutKept ==
    ASSUME Separated, FfiInv, FfiInv', SeparateOK, Up, NEW t \in Threads, SandboxOut(t)
    PROVE  SeparateOK' /\ Kept
<1>1. StackOK /\ CallsOK /\ DataOK /\ FlagOK
  BY FlagIs DEF FfiInv
<1>2. /\ Depth(t) > 0 /\ At(t, "out") /\ ArgumentsLeft(t) /\ Top(t).stage = "out"
      /\ Top(t) \in CallType /\ CallOK(Top(t)) /\ Top(t) = calls[t][Depth(t)]
  BY <1>1, TopFacts DEF SandboxOut, At, Top, CallsOK
<1>3. PICK j \in 1 .. Len(Top(t).given) : j = Top(t).next /\ j <= Len(Top(t).args)
  BY <1>2 DEF CallType, CallOK, ArgumentsLeft
<1>4. Gone \in Given /\ Gone.kind # "copy"
  BY DEF Given, Gone
<1>5. CASE Top(t).given[j].kind # "copy" /\ Give(t, Gone) /\ UNCHANGED <<memory, in_ffi_call, process>>
  <2>1. \A d \in Copies : d.of # <<<<t, Depth(t)>>, j>>
    BY <1>1, <1>2, <1>3, <1>5, NoCopyThere
  <2>2. \A d : d \in Copies' <=> d \in Copies /\ d.of # <<<<t, Depth(t)>>, Top(t).next>>
    BY <1>1, <1>2, <1>4, <1>5, GiveKeeps
  <2>3. Copies' = Copies
    BY <1>3, <2>1, <2>2
  <2>4. View' = View
    BY <1>5, <2>3 DEF View
  <2>5. SeparateOK' /\ lentBy' = lentBy /\ strayedBy' = strayedBy
    BY <1>1, <1>2, <1>3, <1>4, <1>5, GiveMaps
  <2>6. QED
    BY <1>5, <2>4, <2>5, Stutters
<1>6. CASE /\ Top(t).given[j].kind = "copy" /\ Top(t).given[j].canary /\ Give(t, Gone)
           /\ memory' = WriteBack(Top(t).args[j], Top(t).given[j].data)
           /\ UNCHANGED <<in_ffi_call, process>>
  <2>1. PICK e : e = [of |-> <<<<t, Depth(t)>>, j>>, data |-> Top(t).given[j].data]
    OBVIOUS
  <2>2. e \in Copies /\ \A d : d \in Copies /\ d.of = <<<<t, Depth(t)>>, j>> <=> d = e
    BY <1>1, <1>2, <1>6, <2>1, CopyThere
  <2>3. \A d : d \in Copies' <=> d \in Copies /\ d.of # <<<<t, Depth(t)>>, j>>
    BY <1>1, <1>2, <1>3, <1>4, <1>6, GiveKeeps
  <2>4. Copies' = Copies \ {e}
    BY <2>2, <2>3
  <2>5. SeparateOK' /\ lentBy' = lentBy /\ strayedBy' = strayedBy
    BY <1>1, <1>2, <1>3, <1>4, <1>6, GiveMaps
  <2>6. ViewOK /\ ViewOK'
    BY <2>5, Views
  <2>7. ASSUME NEW c \in Cells PROVE View'[c] = View[c]
    <3>1. memory'[c] = IF c \in DOMAIN e.data THEN e.data[c] ELSE memory[c]
      BY <1>6, <2>1 DEF WriteBack
    <3>2. CASE c \in DOMAIN e.data
      <4>1. View[c] = e.data[c]
        BY <2>2, <2>6, <3>2 DEF ViewOK
      <4>2. \A d \in Copies' : c \notin DOMAIN d.data
        BY <2>2, <2>4, <3>2, OneCopy
      <4>3. View'[c] = memory'[c]
        BY <2>6, <4>2 DEF ViewOK
      <4>4. QED
        BY <3>1, <3>2, <4>1, <4>3
    <3>3. CASE c \notin DOMAIN e.data
      <4>1. CASE \E d \in Copies : c \in DOMAIN d.data
        BY <2>4, <2>6, <3>3, <4>1 DEF ViewOK
      <4>2. CASE \A d \in Copies : c \notin DOMAIN d.data
        BY <2>4, <2>6, <3>1, <3>3, <4>2 DEF ViewOK
      <4>3. QED
        BY <4>1, <4>2
    <3>4. QED
      BY <3>2, <3>3
  <2>8. View' = View
    BY <2>6, <2>7, SameView
  <2>9. QED
    BY <1>6, <2>5, <2>8, Stutters
<1>7. CASE Abort("overrun")
  BY <1>7, AbortKept
<1>8. QED
  BY <1>3, <1>5, <1>6, <1>7 DEF SandboxOut

LEMMA ReturnKept ==
    ASSUME Separated, FfiInv, SeparateOK, Up, NEW t \in Threads, Return(t)
    PROVE  SeparateOK' /\ Kept
<1>1. StackOK /\ CallsOK
  BY DEF FfiInv
<1>2. /\ Depth(t) > 0 /\ Top(t).stage = "out" /\ Top(t) \in CallType /\ CallOK(Top(t))
      /\ calls' = [calls EXCEPT ![t] = Front(@)] /\ UNCHANGED <<memory, process>>
  BY <1>1, TopFacts DEF Return, At, Top, CallsOK
<1>3. \A j \in 1 .. Len(Top(t).given) : Top(t).given[j].kind # "copy"
  BY <1>2 DEF Return, AllGivenBack, ArgumentsLeft, CallOK, CallType
<1>4. ~Overrun(Top(t))
  <2>1. DOMAIN Top(t).given = 1 .. Len(Top(t).given)
    BY <1>2 DEF CallType
  <2>2. QED
    BY <1>3, <2>1 DEF Overrun
<1>5. Copies' = Copies
  BY <1>1, <1>2, <1>3, FrontCopies
<1>6. View' = View
  BY <1>2, <1>5 DEF View
<1>7. SeparateOK'
  BY <1>1, <1>2, ReturnSeparate
<1>8. /\ lentBy' = [lentBy EXCEPT ![t] = Front(lentBy[t])]
      /\ strayedBy' = [strayedBy EXCEPT ![t] = Front(strayedBy[t])]
  BY <1>1, <1>2, FrontMaps
<1>9. QED
  BY <1>1, <1>2, <1>4, <1>6, <1>7, <1>8, TakesBack

-----------------------------------------------------------------------------
(* The library and the program write *)

LEMMA NotCopied ==
    ASSUME StackOK, NEW t \in Threads, Depth(t) > 0, NEW j \in 1 .. Len(Top(t).given),
           Top(t).given[j].kind # "copy"
    PROVE  \A d \in Copies : d.of # <<<<t, Depth(t)>>, j>>
<1>1. CopiesByPlace /\ Top(t) = calls[t][Depth(t)]
  BY CopiesAre, TopFacts
<1>2. SUFFICES ASSUME NEW u \in Threads, NEW i \in Nat, NEW k \in Nat, IsCopy(u, i, k),
                      CopyAt(u, i, k).of = <<<<t, Depth(t)>>, j>>
               PROVE  FALSE
  BY <1>1 DEF CopiesByPlace
<1>3. u = t /\ i = Depth(t) /\ k = j
  BY <1>2 DEF CopyAt
<1>4. QED
  BY <1>1, <1>2, <1>3 DEF IsCopy

\* While no call changes, neither do the copies, what is lent and who strayed.
LEMMA CallsUnchanged ==
    ASSUME UNCHANGED calls
    PROVE  /\ Copies' = Copies /\ (SeparateOK => SeparateOK')
           /\ lentBy' = lentBy /\ strayedBy' = strayedBy
<1>1. Copies' = Copies
  BY DEF Copies, Frames, Depth
<1>2. SeparateOK => SeparateOK'
  <2>1. \A u, i, j : (Held(u, i, j)' <=> Held(u, i, j)) /\ ObjectAt(u, i, j)' = ObjectAt(u, i, j)
    BY DEF Held, ObjectAt, Depth
  <2>2. QED
    BY <2>1, FewerHeld
<1>3. CallsSame
  BY DEF CallsSame, Depth, Lent, Passed, Overrun
<1>4. QED
  BY <1>1, <1>2, <1>3, MapsSame

\* A cell that no copy is of is written.
LEMMA DirectWrite ==
    ASSUME Separated, FfiInv, FfiInv', SeparateOK, NEW c \in Cells, NEW v,
           \A d \in Copies : c \notin DOMAIN d.data,
           memory' = [memory EXCEPT ![c] = v], UNCHANGED calls
    PROVE  View' = [View EXCEPT ![c] = v]
<1>1. Copies' = Copies /\ SeparateOK'
  BY CallsUnchanged
<1>2. ViewOK /\ ViewOK'
  BY <1>1, Views
<1>3. memory \in [Cells -> Values]
  BY DEF FfiInv, DataOK
<1>4. ASSUME NEW b \in Cells PROVE View'[b] = IF b = c THEN v ELSE View[b]
  <2>1. memory'[b] = IF b = c THEN v ELSE memory[b]
    BY <1>3
  <2>2. CASE \E d \in Copies : b \in DOMAIN d.data
    <3>1. PICK d \in Copies : b \in DOMAIN d.data
      BY <2>2
    <3>2. View'[b] = d.data[b] /\ View[b] = d.data[b] /\ b # c
      BY <1>1, <1>2, <3>1 DEF ViewOK
    <3>3. QED
      BY <3>2
  <2>3. CASE \A d \in Copies : b \notin DOMAIN d.data
    <3>1. View'[b] = memory'[b] /\ View[b] = memory[b]
      BY <1>1, <1>2, <2>3 DEF ViewOK
    <3>2. QED
      BY <2>1, <3>1
  <2>4. QED
    BY <2>2, <2>3
<1>5. QED
  BY <1>2, <1>4, WrittenView

\* The copy of the j-th argument of the innermost call is written.
LEMMA CopyWritten ==
    ASSUME Separated, FfiInv, FfiInv', SeparateOK, NEW t \in Threads, Depth(t) > 0, Top(t).stage = "library",
           NEW j \in 1 .. Len(Top(t).given), NEW h \in Given, h.kind = "copy",
           Top(t).given[j].kind = "copy",
           h.data \in [Window(Top(t).args[j]) -> Values],
           SetTop(t, [Top(t) EXCEPT !.given[j] = h]), UNCHANGED <<memory, in_ffi_call, process>>
    PROVE  /\ SeparateOK' /\ ViewOK /\ ViewOK'
           /\ LET e == [of |-> <<<<t, Depth(t)>>, j>>, data |-> Top(t).given[j].data]
                  f == [of |-> <<<<t, Depth(t)>>, j>>, data |-> h.data]
              IN  e \in Copies /\ Copies' = (Copies \ {e}) \cup {f}
           /\ \E call \in CallType :
                 /\ SetTop(t, call) /\ call.args = Top(t).args
                 /\ (h.canary <=> Top(t).given[j].canary) => (Overrun(call) <=> Overrun(Top(t)))
                 /\ ~h.canary => Overrun(call)
<1>1. StackOK /\ CallsOK /\ DataOK /\ FlagOK
  BY FlagIs DEF FfiInv
<1>2. Top(t) \in CallType /\ CallOK(Top(t))
  BY <1>1, TopFacts DEF CallsOK
<1>3. PICK n \in 1 .. Len(Top(t).args) + 1 : n = Top(t).next /\ n \in Nat
  BY <1>2 DEF CallOK, CallType
<1>4. SetTop(t, [Top(t) EXCEPT !.given[j] = h, !.next = n])
  <2>1. [Top(t) EXCEPT !.given[j] = h] = [Top(t) EXCEPT !.given[j] = h, !.next = Top(t).next]
    BY <1>2 DEF CallType
  <2>2. QED
    BY <1>3, <2>1
<1>5. PICK e, f : /\ e = [of |-> <<<<t, Depth(t)>>, j>>, data |-> Top(t).given[j].data]
                  /\ f = [of |-> <<<<t, Depth(t)>>, j>>, data |-> h.data]
  OBVIOUS
<1>6. e \in Copies /\ \A d : d \in Copies /\ d.of = <<<<t, Depth(t)>>, j>> <=> d = e
  BY <1>1, <1>5, CopyThere
<1>7. \A d : d \in Copies' <=> \/ d \in Copies /\ d.of # <<<<t, Depth(t)>>, j>>
                               \/ d = f
  <2>1. Top(t).stage # "in" /\ Top(t).stage # "out"
    OBVIOUS
  <2>2. \A d : d \in Copies' <=>
           \/ d \in Copies /\ d.of # <<<<t, Depth(t)>>, j>>
           \/ h.kind = "copy" /\ d = [of |-> <<<<t, Depth(t)>>, j>>, data |-> h.data]
    BY <1>1, <1>4, <2>1, GivenKeeps
  <2>3. QED
    BY <1>5, <2>2
<1>8. Copies' = (Copies \ {e}) \cup {f}
  BY <1>5, <1>6, <1>7
<1>9. PICK call \in CallType :
         /\ SetTop(t, call) /\ call.args = Top(t).args
         /\ Overrun(call) <=> \/ h.kind = "copy" /\ ~h.canary
                              \/ \E k \in 1 .. Len(Top(t).given) :
                                    /\ k # j /\ Top(t).given[k].kind = "copy"
                                    /\ ~Top(t).given[k].canary
  BY <1>1, <1>3, <1>4, GivenCall
<1>10. Overrun(Top(t)) <=> \E k \in 1 .. Len(Top(t).given) :
                             Top(t).given[k].kind = "copy" /\ ~Top(t).given[k].canary
  <2>1. DOMAIN Top(t).given = 1 .. Len(Top(t).given)
    BY <1>2 DEF CallType
  <2>2. QED
    BY <2>1 DEF Overrun
<1>11. (h.canary <=> Top(t).given[j].canary) => (Overrun(call) <=> Overrun(Top(t)))
  BY <1>9, <1>10
<1>12. SeparateOK'
  BY <1>1, <1>9, SetSeparate
<1>13. ViewOK /\ ViewOK'
  BY <1>12, Views
<1>14. QED
  BY <1>5, <1>6, <1>8, <1>9, <1>11, <1>12, <1>13

\* A library writes into one of its copies ...
LEMMA CellWritten ==
    ASSUME Separated, FfiInv, FfiInv', SeparateOK, Up, NEW t \in Threads, Depth(t) > 0,
           Top(t).stage = "library", NEW j \in 1 .. Len(Top(t).given), NEW h \in Given, h.kind = "copy",
           Top(t).given[j].kind = "copy", h.canary <=> Top(t).given[j].canary,
           NEW c \in Window(Top(t).args[j]), NEW v \in Values,
           h.data = [Top(t).given[j].data EXCEPT ![c] = v],
           SetTop(t, [Top(t) EXCEPT !.given[j] = h]), UNCHANGED <<memory, in_ffi_call, process>>
    PROVE  SeparateOK' /\ Kept
<1>1. StackOK /\ CallsOK
  BY DEF FfiInv
<1>2. Top(t) \in CallType /\ CallOK(Top(t)) /\ Top(t) = calls[t][Depth(t)]
  BY <1>1, TopFacts DEF CallsOK
<1>3. PICK a \in Args : a = Top(t).args[j] /\ j \in 1 .. Len(Top(t).args)
  <2>1. Top(t).args \in Seq(Args) /\ Len(Top(t).args) = Len(Top(t).given)
    BY <1>2 DEF CallType, CallOK
  <2>2. QED
    BY <2>1
<1>4. PICK data \in [Window(a) -> Values] : data = Top(t).given[j].data
  BY <1>2, <1>3 DEF CallOK
<1>5. h.data \in [Window(a) -> Values] /\ h.data[c] = v /\ \A b \in Window(a) : b # c => h.data[b] = data[b]
  BY <1>3, <1>4
<1>6. PICK e, f : /\ e = [of |-> <<<<t, Depth(t)>>, j>>, data |-> Top(t).given[j].data]
                  /\ f = [of |-> <<<<t, Depth(t)>>, j>>, data |-> h.data]
  OBVIOUS
<1>7. /\ SeparateOK' /\ ViewOK /\ ViewOK' /\ e \in Copies /\ Copies' = (Copies \ {e}) \cup {f}
      /\ \E call \in CallType :
            /\ SetTop(t, call) /\ call.args = Top(t).args
            /\ Overrun(call) <=> Overrun(Top(t))
  BY <1>3, <1>5, <1>6, CopyWritten
<1>8. lentBy' = lentBy /\ strayedBy' = strayedBy
  BY <1>1, <1>7, SetMaps
<1>9. Held(t, Depth(t), j) /\ ObjectAt(t, Depth(t), j) = a.object /\ Depth(t) \in 1 .. Depth(t) /\ j \in Nat
  BY <1>1, <1>2, <1>3, TopFacts DEF Held, ObjectAt
<1>10. a.object # 0 /\ Window(a) = Extent(a.object) /\ Window(a) \subseteq Cells
  BY <1>3, WindowIs, Apart
<1>11. c \in Lent(Top(t)) /\ c \in Cells
  <2>1. Extent(ObjectAt(t, Depth(t), j)) \subseteq Lent(calls[t][Depth(t)])
    BY <1>1, <1>9, <1>10, LentIs
  <2>2. QED
    BY <1>2, <1>3, <1>9, <1>10, <2>1
<1>12. DOMAIN e.data = Window(a) /\ DOMAIN f.data = Window(a)
  BY <1>4, <1>5, <1>6
<1>13. ASSUME NEW b \in Cells PROVE View'[b] = IF b = c THEN v ELSE View[b]
  <2>1. CASE b \in Window(a)
    <3>1. View[b] = data[b] /\ View'[b] = h.data[b]
      BY <1>4, <1>6, <1>7, <1>12, <2>1 DEF ViewOK
    <3>2. QED
      BY <1>5, <2>1, <3>1
  <2>2. CASE b \notin Window(a)
    <3>1. b # c
      BY <1>3, <2>2
    <3>2. CASE \E d \in Copies : b \in DOMAIN d.data
      BY <1>7, <1>12, <2>2, <3>1, <3>2 DEF ViewOK
    <3>3. CASE \A d \in Copies : b \notin DOMAIN d.data
      BY <1>7, <1>12, <2>2, <3>1, <3>3 DEF ViewOK
    <3>4. QED
      BY <3>2, <3>3
  <2>3. QED
    BY <2>1, <2>2
<1>14. View' = [View EXCEPT ![c] = v]
  BY <1>7, <1>11, <1>13, WrittenView
<1>15. QED
  BY <1>1, <1>7, <1>8, <1>11, <1>14, Writes

\* ... or behind it, where the canary is.
LEMMA CanaryWritten ==
    ASSUME Separated, FfiInv, FfiInv', SeparateOK, Up, NEW t \in Threads, Depth(t) > 0,
           Top(t).stage = "library", NEW j \in 1 .. Len(Top(t).given), NEW h \in Given, h.kind = "copy",
           Top(t).given[j].kind = "copy", h.canary => Top(t).given[j].canary,
           h.data = Top(t).given[j].data,
           SetTop(t, [Top(t) EXCEPT !.given[j] = h]), UNCHANGED <<memory, in_ffi_call, process>>
    PROVE  SeparateOK' /\ Kept
<1>1. StackOK /\ CallsOK
  BY DEF FfiInv
<1>2. Top(t) \in CallType /\ CallOK(Top(t))
  BY <1>1, TopFacts DEF CallsOK
<1>3. h.data \in [Window(Top(t).args[j]) -> Values]
  BY <1>2 DEF CallOK
<1>4. PICK e : e = [of |-> <<<<t, Depth(t)>>, j>>, data |-> h.data]
  OBVIOUS
<1>5. /\ SeparateOK' /\ e \in Copies /\ Copies' = (Copies \ {e}) \cup {e}
      /\ \E call \in CallType :
            /\ SetTop(t, call) /\ call.args = Top(t).args
            /\ (h.canary <=> Top(t).given[j].canary) => (Overrun(call) <=> Overrun(Top(t)))
            /\ ~h.canary => Overrun(call)
  BY <1>3, <1>4, CopyWritten
<1>6. View' = View
  <2>1. Copies' = Copies
    BY <1>5
  <2>2. QED
    BY <2>1 DEF View
<1>7. CASE h.canary
  <2>1. lentBy' = lentBy /\ strayedBy' = strayedBy
    BY <1>1, <1>5, <1>7, SetMaps
  <2>2. QED
    BY <1>5, <1>6, <2>1, Stutters
<1>8. CASE ~h.canary
  <2>1. lentBy' = lentBy /\ strayedBy' = [strayedBy EXCEPT ![t][Len(strayedBy[t])] = TRUE]
    BY <1>1, <1>5, <1>8, SetStrayed
  <2>2. QED
    BY <1>1, <1>5, <1>6, <2>1, Strays
<1>9. QED
  BY <1>7, <1>8

LEMMA LibraryWritesKept ==
    ASSUME Separated, FfiInv, FfiInv', SeparateOK, Up, NEW t \in Threads, LibraryWrites(t)
    PROVE  SeparateOK' /\ Kept
<1>1. StackOK /\ CallsOK
  BY DEF FfiInv
<1>2. /\ Depth(t) > 0 /\ Top(t).stage = "library" /\ Top(t) \in CallType /\ CallOK(Top(t))
      /\ Top(t) = calls[t][Depth(t)]
  BY <1>1, TopFacts DEF LibraryWrites, At, Top, CallsOK
<1>3. PICK j \in DOMAIN Top(t).args, v \in Values :
         LET a == Top(t).args[j]
             g == Top(t).given[j]
         IN  \/ /\ g.kind = "raw"
                /\ a # NullArg
                /\ \E c \in Extent(a.object) : memory' = [memory EXCEPT ![c] = v]
                /\ UNCHANGED <<calls, in_ffi_call, mapped, begun, process>>
             \/ /\ g.kind = "copy"
                /\ \E off \in 0 .. DataCells(a.size) - 1 :
                      SetTop(t, [Top(t) EXCEPT !.given[j] =
                          IF off < a.size
                          THEN [g EXCEPT !.data[a.at + off] = v]
                          ELSE [g EXCEPT !.canary = @ /\ off >= a.size + Canary]])
                /\ UNCHANGED <<memory, in_ffi_call, mapped, begun, process>>
  BY DEF LibraryWrites
<1>4. PICK a \in Args, g \in Given : a = Top(t).args[j] /\ g = Top(t).given[j]
  <2>1. /\ Top(t).args \in Seq(Args) /\ Top(t).given \in Seq(Given)
        /\ Len(Top(t).given) = Len(Top(t).args)
    BY <1>2 DEF CallType, CallOK
  <2>2. QED
    BY <2>1
<1>5. j \in 1 .. Len(Top(t).given) /\ j \in Nat /\ j \in 1 .. Len(Top(t).args)
  BY <1>2 DEF CallType, CallOK
<1>6. CASE /\ g.kind = "raw" /\ a # NullArg
           /\ \E c \in Extent(a.object) : memory' = [memory EXCEPT ![c] = v]
           /\ UNCHANGED <<calls, in_ffi_call, mapped, begun, process>>
  <2>1. PICK c \in Extent(a.object) : memory' = [memory EXCEPT ![c] = v]
    BY <1>6
  <2>2. a.object # 0 /\ a.object \in 1 .. Objects
    BY <1>6, WindowIs
  <2>3. Held(t, Depth(t), j) /\ ObjectAt(t, Depth(t), j) = a.object /\ Depth(t) \in 1 .. Depth(t) /\ Depth(t) \in Nat
    BY <1>1, <1>2, <1>4, <1>5, TopFacts DEF Held, ObjectAt, StackOK, Depth
  <2>4. c \in Lent(Top(t)) /\ c \in Cells
    <3>1. Extent(ObjectAt(t, Depth(t), j)) \subseteq Lent(calls[t][Depth(t)])
      BY <1>1, <1>5, <2>2, <2>3, LentIs
    <3>2. QED
      BY <1>2, <2>2, <2>3, <3>1, Apart
  <2>5. \A d \in Copies : c \notin DOMAIN d.data
    <3>1. \A d \in Copies : d.of # <<<<t, Depth(t)>>, j>>
      BY <1>1, <1>2, <1>4, <1>5, <1>6, NotCopied
    <3>2. QED
      BY <1>5, <2>2, <2>3, <3>1, CoverPlace
  <2>6. View' = [View EXCEPT ![c] = v]
    BY <1>6, <2>1, <2>4, <2>5, DirectWrite
  <2>7. SeparateOK' /\ lentBy' = lentBy /\ strayedBy' = strayedBy
    BY <1>6, CallsUnchanged
  <2>8. QED
    BY <1>1, <1>2, <1>6, <2>4, <2>6, <2>7, Writes
<1>7. CASE /\ g.kind = "copy"
           /\ \E off \in 0 .. DataCells(a.size) - 1 :
                 SetTop(t, [Top(t) EXCEPT !.given[j] =
                     IF off < a.size
                     THEN [g EXCEPT !.data[a.at + off] = v]
                     ELSE [g EXCEPT !.canary = @ /\ off >= a.size + Canary]])
           /\ UNCHANGED <<memory, in_ffi_call, mapped, begun, process>>
  <2>1. PICK off \in 0 .. DataCells(a.size) - 1 :
                 SetTop(t, [Top(t) EXCEPT !.given[j] =
                     IF off < a.size
                     THEN [g EXCEPT !.data[a.at + off] = v]
                     ELSE [g EXCEPT !.canary = @ /\ off >= a.size + Canary]])
    BY <1>7
  <2>2. PICK data \in [Window(a) -> Values], canary \in BOOLEAN :
           g = [kind |-> "copy", data |-> data, canary |-> canary]
    <3>1. g \in [kind : {"copy"}, data : UNION {[Window(b) -> Values] : b \in Args}, canary : BOOLEAN]
      BY <1>4, <1>7 DEF Given, Raw, NullGiven, Gone
    <3>2. g.data \in [Window(a) -> Values]
      BY <1>2, <1>4, <1>5, <1>7 DEF CallOK
    <3>3. QED
      BY <3>1, <3>2
  <2>3. CASE off < a.size
    <3>1. PICK c : c = a.at + off
      OBVIOUS
    <3>2. c \in Window(a)
      <4>1. a.size > 0
        <5>1. PICK s \in Int : s = a.size
          BY <1>4, WindowIs, FfiAssumption DEF Infinite
        <5>2. QED
          BY <2>1, <2>3, <5>1
      <4>2. a.object # 0 /\ a.at = Base(a.object) /\ a.object \in 1 .. Objects
        BY <4>1, WindowIs
      <4>3. PICK at \in Int, s \in Int : at = a.at /\ s = a.size
        BY <4>1, <4>2, WindowIs, FfiAssumption DEF Base
      <4>4. QED
        BY <2>1, <2>3, <3>1, <4>3 DEF Window
    <3>3. PICK written \in [Window(a) -> Values] : written = [data EXCEPT ![c] = v]
      OBVIOUS
    <3>4. PICK h : h = [kind |-> "copy", data |-> written, canary |-> canary]
      OBVIOUS
    <3>5. [g EXCEPT !.data[a.at + off] = v] = h
      BY <2>2, <3>1, <3>3, <3>4
    <3>6. SetTop(t, [Top(t) EXCEPT !.given[j] = h])
      BY <2>1, <2>3, <3>5
    <3>7. h \in Given /\ h.kind = "copy" /\ h.canary = g.canary /\ h.data = [g.data EXCEPT ![c] = v]
      BY <2>2, <3>3, <3>4 DEF Given
    <3>8. /\ h.canary <=> Top(t).given[j].canary
          /\ c \in Window(Top(t).args[j]) /\ Top(t).given[j].kind = "copy"
          /\ h.data = [Top(t).given[j].data EXCEPT ![c] = v]
      BY <1>4, <1>7, <3>2, <3>7, Zenon
    <3>9. UNCHANGED <<memory, in_ffi_call, process>>
      BY <1>7
    <3>10. QED
      BY <1>2, <1>5, <3>6, <3>7, <3>8, <3>9, CellWritten
  <2>4. CASE ~(off < a.size)
    <3>1. PICK left \in BOOLEAN : left = (canary /\ off >= a.size + Canary)
      OBVIOUS
    <3>2. PICK h : h = [kind |-> "copy", data |-> data, canary |-> left]
      OBVIOUS
    <3>3. [g EXCEPT !.canary = @ /\ off >= a.size + Canary] = h
      BY <2>2, <3>1, <3>2
    <3>4. SetTop(t, [Top(t) EXCEPT !.given[j] = h])
      BY <2>1, <2>4, <3>3
    <3>5. h \in Given /\ h.kind = "copy" /\ (h.canary => g.canary) /\ h.data = g.data
      BY <2>2, <3>1, <3>2 DEF Given
    <3>6. QED
      BY <1>2, <1>4, <1>5, <1>7, <3>4, <3>5, CanaryWritten
  <2>5. QED
    BY <2>3, <2>4
<1>8. QED
  BY <1>3, <1>4, <1>6, <1>7

LEMMA ProgramWritesKept ==
    ASSUME Separated, FfiInv, FfiInv', SeparateOK, Up, NEW t \in Threads, ProgramWrites(t)
    PROVE  SeparateOK' /\ Kept
<1>1. StackOK /\ CallsOK
  BY DEF FfiInv
<1>2. PICK c \in Cells, v \in Values : c \notin LentNow /\ memory' = [memory EXCEPT ![c] = v]
  BY DEF ProgramWrites, Separated
<1>3. UNCHANGED <<calls, process>>
  BY DEF ProgramWrites
<1>4. ASSUME NEW u \in Threads, NEW i \in 1 .. Depth(u) PROVE c \notin Lent(calls[u][i])
  <2>1. PICK f : f = <<u, i>>
    OBVIOUS
  <2>2. f \in Frames /\ f[1] = u /\ f[2] = i
    BY <2>1 DEF Frames
  <2>3. QED
    BY <1>2, <2>2 DEF LentNow
<1>5. ASSUME NEW d \in Copies PROVE c \notin DOMAIN d.data
  <2>1. PICK u \in Threads, i \in Nat, j \in Nat :
           /\ Held(u, i, j)
           /\ \A b \in DOMAIN d.data : ObjectAt(u, i, j) \in 1 .. Objects /\ b \in Extent(ObjectAt(u, i, j))
    BY <1>1, CopyOf
  <2>2. SUFFICES ASSUME c \in DOMAIN d.data PROVE FALSE
    OBVIOUS
  <2>3. i \in 1 .. Depth(u) /\ ObjectAt(u, i, j) # 0
    <3>1. \A o \in 1 .. Objects : o # 0
      BY FfiAssumption
    <3>2. QED
      BY <2>1, <2>2, <3>1 DEF Held
  <2>4. c \in Lent(calls[u][i])
    BY <1>1, <2>1, <2>2, <2>3, LentIs
  <2>5. QED
    BY <1>4, <2>3, <2>4
<1>6. View' = [View EXCEPT ![c] = v]
  BY <1>2, <1>3, <1>5, DirectWrite
<1>7. SeparateOK' /\ lentBy' = lentBy /\ strayedBy' = strayedBy
  BY <1>3, CallsUnchanged
<1>8. QED
  BY <1>1, <1>3, <1>4, <1>6, <1>7, WritesUnlent

LEMMA HandlerKept ==
    ASSUME Up, sigsegv_handler
    PROVE  SeparateOK' /\ Kept
<1>1. PICK message \in {"library fault", "stack overflow"} : Abort(message)
  BY DEF sigsegv_handler
<1>2. QED
  BY <1>1, AbortKept

LEMMA NothingKept ==
    ASSUME SeparateOK, UNCHANGED vars
    PROVE  SeparateOK' /\ Kept
<1>1. UNCHANGED <<memory, calls, process>>
  BY DEF vars
<1>2. Copies' = Copies /\ SeparateOK' /\ lentBy' = lentBy /\ strayedBy' = strayedBy
  BY <1>1, CallsUnchanged
<1>3. View' = View
  BY <1>1, <1>2 DEF View
<1>4. QED
  BY <1>1, <1>2, <1>3, Stutters

LEMMA StepKept ==
    ASSUME Separated, FfiInv, FfiInv', SeparateOK, [Next]_vars
    PROVE  SeparateOK' /\ Kept
<1>1. CASE UNCHANGED vars
  BY <1>1, NothingKept
<1>2. ASSUME NEW t \in Threads, CallStep(t) PROVE SeparateOK' /\ Kept
  <2>1. Up
    BY <1>2 DEF CallStep
  <2>2. CASE SandboxIn(t)
    BY <2>2, SandboxInKept
  <2>3. CASE SandboxOut(t)
    BY <2>1, <2>3, SandboxOutKept
  <2>4. CASE Enter(t) \/ Leave(t) \/ CallbackReturns(t)
    BY <2>4, StagesKept
  <2>5. CASE Return(t)
    BY <2>1, <2>5, ReturnKept
  <2>6. QED
    BY <1>2, <2>2, <2>3, <2>4, <2>5 DEF CallStep
<1>3. ASSUME NEW t \in Threads, Up,
             \/ BeginCall(t)
             \/ LibraryWrites(t)
             \/ LibraryFaults(t)
             \/ CallBack(t)
             \/ ProgramWrites(t)
             \/ StackOverflow(t)
      PROVE  SeparateOK' /\ Kept
  <2>1. CASE BeginCall(t)
    BY <1>3, <2>1, BeginCallKept
  <2>2. CASE LibraryWrites(t)
    BY <1>3, <2>2, LibraryWritesKept
  <2>3. CASE LibraryFaults(t) \/ StackOverflow(t)
    BY <1>3, <2>3, HandlerKept DEF LibraryFaults, StackOverflow
  <2>4. CASE CallBack(t)
    BY <2>4, StagesKept
  <2>5. CASE ProgramWrites(t)
    BY <1>3, <2>5, ProgramWritesKept
  <2>6. QED
    BY <1>3, <2>1, <2>2, <2>3, <2>4, <2>5
<1>4. QED
  BY <1>1, <1>2, <1>3 DEF Next

LEMMA InitKept ==
    ASSUME Separated, Init
    PROVE  SeparateOK /\ Direct!Init
<1>1. FfiInv
  BY FfiInit
<1>2. \A t \in Threads : Depth(t) = 0 /\ 1 .. Depth(t) = {}
  BY DEF Init, Depth
<1>3. SeparateOK
  BY <1>2 DEF SeparateOK, Held
<1>4. View \in [Cells -> Values]
  BY <1>1, <1>3, ViewIs DEF ViewOK
<1>5. /\ lentBy = [t \in Threads |-> <<>>]
      /\ strayedBy = [t \in Threads |-> <<>>]
  <2>1. ASSUME NEW t \in Threads
        PROVE  /\ [i \in 1 .. Depth(t) |-> Lent(calls[t][i])] = <<>>
               /\ [i \in 1 .. Depth(t) |-> Overrun(calls[t][i])] = <<>>
    <3>1. 1 .. Depth(t) = {}
      BY <1>2
    <3>2. QED
      BY <3>1
  <2>2. QED
    BY <2>1 DEF lentBy, strayedBy
<1>6. Up = TRUE
  BY DEF Up, Init
<1>7. QED
  BY <1>3, <1>4, <1>5, <1>6 DEF Direct!Init, lentBy, strayedBy

LEMMA SeparateInvariant == ASSUME Separated PROVE Spec => [](FfiInv /\ SeparateOK)
<1>1. Init => FfiInv /\ SeparateOK
  BY FfiInit, InitKept
<1>2. (FfiInv /\ SeparateOK) /\ [Next]_vars => (FfiInv /\ SeparateOK)'
  BY FfiStep, StepKept
<1>3. QED
  BY <1>1, <1>2, PTL DEF Spec

\* With pointers to the beginning of objects that no two arguments share, the sandbox
\* does to the program's memory what the library would have done to it directly: no write
\* of the library, of another thread or of a callback is lost or comes twice, whatever is
\* not lent stays as it is, and a call whose canary was overwritten never returns.
THEOREM ImplementsCalls == ASSUME Separated PROVE Spec => ImplementsDirectCalls
<1>1. Init => Direct!Init
  BY InitKept
<1>2. FfiInv /\ SeparateOK /\ (FfiInv /\ SeparateOK)' /\ [Next]_vars => [Direct!Next]_(Direct!vars)
  BY StepKept DEF Kept
<1>3. Spec => [](FfiInv /\ SeparateOK)
  BY SeparateInvariant
<1>4. QED
  BY <1>1, <1>2, <1>3, PTL DEF Spec, ImplementsDirectCalls, Direct!Spec
=============================================================================
