-------------------------- MODULE RuntimeEntryProofs --------------------------
(***************************************************************************)
(* Proofs about RuntimeEntry: for any number of threads and calls, and     *)
(* however often dlsym and a growing table call the allocator again.       *)
(***************************************************************************)
EXTENDS RuntimeEntry, TLAPS, FiniteSetTheorems, SequenceTheorems

-----------------------------------------------------------------------------
(* The inductive invariant *)

Releases  == {"free", "realloc"}
InRuntime == {"allocate", "lock", "insert"}

\* Who made the i-th call of t.
User(t, i) == UserIn(t, i - 1)

BufferAddr == 0 .. BufferSize - 1

FrameType == [op : Ops, block : Block \cup {NoBlock}, size : Nat, stage : Stages,
              at : BufferAddr \cup HeapAddr \cup {Null}, key : Nat]

StackOK == stack \in [Threads -> Seq(FrameType)]

\* Only dlsym and a growing table call the allocator.
CallersOK ==
    \A t \in Threads : \A i, j \in 1 .. Depth(t) :
        i < j => stack[t][i].stage \in {"dlsym", "insert"}

Placed(a, n) == a % Align = 0 /\ a + n <= BufferSize

\* The locals of a call made by user.
FrameOK(f, user) ==
    /\ f.op \in Releases <=> f.block \in Block
    /\ f.op \in Releases => f.block.user = user
    /\ f.op # "free" => f.size \in Sizes
    /\ f.op = "free" => f.stage \notin {"bootstrap", "bump"}
    /\ f.op \in Releases =>
          /\ f.stage # "allocate"
          /\ f.stage \in {"dlsym", "set", "guard", "key", "lock", "insert"} =>
                f.block.at \in HeapAddr
    /\ f.stage \in {"key"} \cup InRuntime => user # "runtime"
    /\ f.stage = "bump" => f.at \in BufferAddr /\ Placed(f.at, f.size)
    /\ f.stage \in {"entry", "dlsym", "set", "guard", "key", "bootstrap", "allocate"} =>
          f.at = Null
    /\ f.stage = "lock" => f.at \in IF f.op \in Releases THEN {Null} ELSE HeapAddr
    /\ f.stage = "insert" =>
          f.at \in CASE f.op = "free" -> {Null}
                     [] f.op = "realloc" -> HeapAddr \cup {Null}
                     [] OTHER -> HeapAddr

FramesOK == \A t \in Threads : \A i \in 1 .. Depth(t) : FrameOK(stack[t][i], User(t, i))

\* A flag is set under TLS_KEY alone, by a thread that is in the runtime.
FlagsOK ==
    /\ IsFiniteSet(keys)
    /\ \A t \in Threads :
          LET inside == \E i \in 1 .. Depth(t) : stack[t][i].stage \in InRuntime
          IN  /\ inside => tls_key # NoKey
              /\ specific[t] = IF inside THEN {tls_key} ELSE {}

\* The keys that threads have made and not yet tried to store.
OwnKeys ==
    \A t, u \in Threads : \A i \in 1 .. Depth(t), j \in 1 .. Depth(u) :
        stack[t][i].stage = "key" =>
            /\ stack[t][i].key \in keys \ {tls_key}
            /\ stack[u][j].stage = "key" /\ <<t, i>> # <<u, j>> =>
                  stack[u][j].key # stack[t][i].key

\* The blocks of the real allocator that a call has, for its caller or by now.
Carried(f) == (IF f.stage = "insert" THEN Entries(f) ELSE {f.block.at, f.at}) \cap HeapAddr

\* What it was given for release and has not yet released.
Tracked(f, a) == f.stage # "insert" /\ f.block.at = a /\ f.block.user # "runtime"

\* Every block of the real allocator has one owner; it has an entry in KEY_TABLE from
\* its registration to its release, unless it is the runtime's own.
HeapOK ==
    /\ table \subseteq heap
    /\ \A b \in blocks : b.at \in HeapAddr =>
          /\ b.at \in heap
          /\ b.at \in table <=> b.user # "runtime"
          /\ \A c \in blocks : c.at = b.at => c = b
          /\ \A t \in Threads : \A i \in 1 .. Depth(t) : b.at \notin Carried(stack[t][i])
    /\ \A t \in Threads : \A i \in 1 .. Depth(t) : \A a \in Carried(stack[t][i]) :
          /\ a \in heap
          /\ a \in table <=> Tracked(stack[t][i], a)
          /\ \A u \in Threads : \A j \in 1 .. Depth(u) :
                <<u, j>> # <<t, i>> => a \notin Carried(stack[u][j])

\* The blocks of the buffer that calls have.
BufferFrame(t, i) == is_bootstrap_ptr(stack[t][i].block.at)

BufferOK ==
    /\ \A b \in blocks : is_bootstrap_ptr(b.at) => Placed(b.at, b.size)
    /\ \A t \in Threads : \A i \in 1 .. Depth(t) :
          BufferFrame(t, i) => Placed(stack[t][i].block.at, stack[t][i].block.size)

\* ... and where they are as long as BOOTSTRAP_INDEX is used by one thread at a time.
BufferOrder ==
    /\ \A b \in blocks : is_bootstrap_ptr(b.at) =>
          /\ b.at + b.size <= index
          /\ \A c \in blocks \ {b} : is_bootstrap_ptr(c.at) => Disjoint(b, c)
    /\ \A t \in Threads : \A i \in 1 .. Depth(t) :
          /\ stack[t][i].stage = "bump" => index <= stack[t][i].at
          /\ BufferFrame(t, i) =>
                /\ stack[t][i].block.at + stack[t][i].block.size <= index
                /\ \A b \in blocks : is_bootstrap_ptr(b.at) => Disjoint(b, stack[t][i].block)
                /\ \A u \in Threads : \A j \in 1 .. Depth(u) :
                      BufferFrame(u, j) /\ <<u, j>> # <<t, i>> =>
                          Disjoint(stack[t][i].block, stack[u][j].block)

Control == StackOK /\ CallersOK /\ FramesOK /\ FlagsOK /\ OwnKeys

EntryInv ==
    /\ TypeOK /\ Control /\ HeapOK /\ BufferOK
    /\ ~raced => BufferOrder
    /\ OwnBlocksAccepted

-----------------------------------------------------------------------------
(* The three things a step does to a stack *)

LEMMA TopFacts ==
    ASSUME StackOK, NEW t \in Threads, Depth(t) > 0
    PROVE  /\ Depth(t) \in 1 .. Depth(t) /\ Top(t) = stack[t][Depth(t)]
           /\ Top(t) \in FrameType
BY DEF StackOK, Depth, Top, Last

LEMMA AfterGoto ==
    ASSUME StackOK, NEW t \in Threads, Depth(t) > 0, NEW f \in FrameType, Goto(t, f)
    PROVE  /\ StackOK'
           /\ \A u \in Threads :
                 /\ Depth(u)' = Depth(u)
                 /\ \A i \in 1 .. Depth(u) :
                       /\ stack'[u][i] = IF u = t /\ i = Depth(t) THEN f ELSE stack[u][i]
                       /\ User(u, i)' = User(u, i)
<1>1. stack \in [Threads -> Seq(FrameType)] /\ Len(stack[t]) \in 1 .. Len(stack[t])
  BY DEF StackOK, Depth
<1>2. stack' = [stack EXCEPT ![t] = [stack[t] EXCEPT ![Len(stack[t])] = f]]
  BY DEF Goto, Depth
<1>3. /\ [stack[t] EXCEPT ![Len(stack[t])] = f] \in Seq(FrameType)
      /\ Len([stack[t] EXCEPT ![Len(stack[t])] = f]) = Len(stack[t])
      /\ \A i \in 1 .. Len(stack[t]) :
            [stack[t] EXCEPT ![Len(stack[t])] = f][i] = IF i = Len(stack[t]) THEN f ELSE stack[t][i]
  BY <1>1
<1>4. StackOK' /\ \A u \in Threads : Depth(u)' = Depth(u)
  BY <1>1, <1>2, <1>3 DEF StackOK, Depth
<1>5. \A u \in Threads : \A i \in 1 .. Depth(u) :
         stack'[u][i] = IF u = t /\ i = Depth(t) THEN f ELSE stack[u][i]
  BY <1>1, <1>2, <1>3 DEF Depth
<1>6. ASSUME NEW u \in Threads, NEW i \in 1 .. Depth(u) PROVE User(u, i)' = User(u, i)
  <2>1. Depth(u) \in Nat
    BY <1>1 DEF Depth
  <2>2. \A j \in 1 .. i - 1 : stack'[u][j] = stack[u][j]
    BY <1>5, <1>6, <2>1
  <2>3. QED
    BY <2>2 DEF User, UserIn
<1>7. QED
  BY <1>4, <1>5, <1>6

LEMMA AfterPush ==
    ASSUME StackOK, NEW t \in Threads, NEW op, NEW block, NEW n,
           Frame(op, block, n) \in FrameType, Push(t, op, block, n)
    PROVE  /\ StackOK'
           /\ \A u \in Threads :
                 /\ Depth(u)' = IF u = t THEN Depth(t) + 1 ELSE Depth(u)
                 /\ \A i \in 1 .. Depth(u) : stack'[u][i] = stack[u][i]
                 /\ \A i \in 1 .. Depth(u) + 1 : User(u, i)' = User(u, i)
           /\ stack'[t][Depth(t) + 1] = Frame(op, block, n)
<1>1. stack \in [Threads -> Seq(FrameType)] /\ Len(stack[t]) \in Nat
  BY DEF StackOK
<1> DEFINE f == Frame(op, block, n)
<1> HIDE DEF f
<1>2. stack' = [stack EXCEPT ![t] = Append(stack[t], f)] /\ f \in FrameType
  BY DEF Push, f
<1>3. /\ Append(stack[t], f) \in Seq(FrameType)
      /\ Len(Append(stack[t], f)) = Len(stack[t]) + 1
      /\ Append(stack[t], f)[Len(stack[t]) + 1] = f
      /\ \A i \in 1 .. Len(stack[t]) : Append(stack[t], f)[i] = stack[t][i]
  BY <1>1, <1>2
<1>4. StackOK' /\ \A u \in Threads : Depth(u)' = IF u = t THEN Depth(t) + 1 ELSE Depth(u)
  BY <1>1, <1>2, <1>3 DEF StackOK, Depth
<1>5. /\ \A u \in Threads : \A i \in 1 .. Depth(u) : stack'[u][i] = stack[u][i]
      /\ stack'[t][Depth(t) + 1] = f
  BY <1>1, <1>2, <1>3 DEF Depth
<1>6. ASSUME NEW u \in Threads, NEW i \in 1 .. Depth(u) + 1 PROVE UserIn(u, i - 1)' = UserIn(u, i - 1)
  <2>1. Depth(u) \in Nat
    BY <1>1 DEF Depth
  <2>2. \A j \in 1 .. i - 1 : stack'[u][j] = stack[u][j]
    BY <1>5, <1>6, <2>1
  <2>3. QED
    BY <2>2 DEF UserIn
<1>7. \A u \in Threads : Depth(u) \in Nat
  BY <1>1 DEF Depth
<1>8. \A u \in Threads : \A i \in 1 .. Depth(u) + 1 : User(u, i)' = User(u, i)
  BY <1>6 DEF User
<1>9. QED
  BY <1>4, <1>5, <1>7, <1>8 DEF f

LEMMA AfterReturn ==
    ASSUME StackOK, NEW t \in Threads, Depth(t) > 0, NEW a, Return(t, a)
    PROVE  /\ StackOK'
           /\ \A u \in Threads :
                 /\ Depth(u)' = IF u = t THEN Depth(t) - 1 ELSE Depth(u)
                 /\ \A i \in 1 .. Depth(u)' :
                       /\ i \in 1 .. Depth(u) /\ (u = t => i # Depth(t))
                       /\ stack'[u][i] = stack[u][i] /\ User(u, i)' = User(u, i)
<1>1. stack \in [Threads -> Seq(FrameType)] /\ Len(stack[t]) \in Nat \ {0}
  BY DEF StackOK, Depth
<1>2. stack' = [stack EXCEPT ![t] = SubSeq(stack[t], 1, Len(stack[t]) - 1)]
  BY DEF Return, Front
<1>3. /\ SubSeq(stack[t], 1, Len(stack[t]) - 1) \in Seq(FrameType)
      /\ Len(SubSeq(stack[t], 1, Len(stack[t]) - 1)) = Len(stack[t]) - 1
      /\ \A i \in 1 .. Len(stack[t]) - 1 :
            SubSeq(stack[t], 1, Len(stack[t]) - 1)[i] = stack[t][i]
  <2>1. PICK s : s = stack[t]
    OBVIOUS
  <2>2. PICK n \in Int : n = Len(stack[t]) - 1
    BY <1>1
  <2>3. \A i \in 1 .. n : s[i] \in FrameType
    BY <1>1, <2>2, <2>1
  <2>4. /\ SubSeq(s, 1, n) \in Seq(FrameType)
        /\ Len(SubSeq(s, 1, n)) = IF 1 <= n THEN n - 1 + 1 ELSE 0
        /\ \A i \in 1 .. n - 1 + 1 : SubSeq(s, 1, n)[i] = s[1 + i - 1]
    BY <2>3, 1 \in Int, SubSeqProperties
  <2>5. n \in Nat
    BY <1>1, <2>2
  <2>6. QED
    BY <2>2, <2>1, <2>4, <2>5
<1>4. StackOK' /\ \A u \in Threads : Depth(u)' = IF u = t THEN Depth(t) - 1 ELSE Depth(u)
  BY <1>1, <1>2, <1>3 DEF StackOK, Depth
<1>5. \A u \in Threads : Depth(u) \in Nat
  BY <1>1 DEF Depth
<1>6. \A u \in Threads : \A i \in 1 .. Depth(u)' :
         /\ i \in 1 .. Depth(u) /\ (u = t => i # Depth(t))
         /\ stack'[u][i] = stack[u][i]
  BY <1>1, <1>2, <1>3, <1>4, <1>5 DEF Depth
<1>7. ASSUME NEW u \in Threads, NEW i \in 1 .. Depth(u)' PROVE User(u, i)' = User(u, i)
  <2>1. Depth(u) \in Nat /\ Depth(u)' \in Nat
    BY <1>4, <1>5, <1>1 DEF Depth
  <2>2. \A j \in 1 .. i - 1 : stack'[u][j] = stack[u][j]
    BY <1>6, <1>7, <2>1
  <2>3. QED
    BY <2>2 DEF User, UserIn
<1>8. QED
  BY <1>4, <1>6, <1>7

-----------------------------------------------------------------------------
(* Calls and their locals *)

\* The second call to enter the runtime would have been made by it.
LEMMA OneInRuntime ==
    ASSUME Control, NEW t \in Threads, NEW i \in 1 .. Depth(t), NEW j \in 1 .. Depth(t), i < j,
           stack[t][j].stage \in {"key"} \cup InRuntime
    PROVE  stack[t][i].stage \notin InRuntime
<1>1. Depth(t) \in Nat
  BY DEF Control, StackOK, Depth
<1>2. i \in 1 .. j - 1 /\ j - 1 # 0
  BY <1>1
<1>3. User(t, j) # "runtime"
  BY DEF Control, FramesOK, FrameOK
<1>4. stack[t][i].stage # "insert"
  BY <1>2, <1>3 DEF User, UserIn
<1>5. QED
  BY <1>4 DEF Control, CallersOK, InRuntime

\* A call was made by the runtime exactly if its thread is in the runtime.
LEMMA UserIsRuntime ==
    ASSUME Control, NEW t \in Threads, Depth(t) > 0, Top(t).stage \notin InRuntime
    PROVE  get_in_runtime(t) <=> User(t, Depth(t)) = "runtime"
<1>1. Depth(t) \in Nat /\ (tls_key = NoKey => specific[t] = {})
  BY DEF Control, StackOK, Depth, FlagsOK
<1>2. get_in_runtime(t) <=> \E i \in 1 .. Depth(t) : stack[t][i].stage \in InRuntime
  BY <1>1 DEF get_in_runtime, Control, FlagsOK
<1>3. \A i \in 1 .. Depth(t) : stack[t][i].stage \in InRuntime =>
         i \in 1 .. Depth(t) - 1 /\ stack[t][i].stage = "insert"
  BY TopFacts DEF Control, CallersOK, InRuntime
<1>4. \A i \in 1 .. Depth(t) - 1 : i \in 1 .. Depth(t)
  BY <1>1
<1>5. QED
  BY <1>1, <1>2, <1>3, <1>4 DEF User, UserIn, InRuntime

LEMMA GotoControl ==
    ASSUME Control, NEW t \in Threads, Depth(t) > 0, NEW f \in FrameType, Goto(t, f),
           FrameOK(f, User(t, Depth(t)))
    PROVE  StackOK' /\ CallersOK' /\ FramesOK'
<1>1. /\ StackOK' /\ Depth(t) \in 1 .. Depth(t)
      /\ \A u \in Threads :
            /\ Depth(u)' = Depth(u) /\ Depth(u) \in Nat
            /\ \A i \in 1 .. Depth(u) :
                  /\ stack'[u][i] = IF u = t /\ i = Depth(t) THEN f ELSE stack[u][i]
                  /\ User(u, i)' = User(u, i)
  BY AfterGoto, TopFacts DEF Control, StackOK, Depth
<1>2. CallersOK'
  BY <1>1 DEF Control, CallersOK
<1>3. FramesOK'
  BY <1>1 DEF Control, FramesOK
<1>4. QED
  BY <1>1, <1>2, <1>3

LEMMA ReturnControl ==
    ASSUME Control, NEW t \in Threads, Depth(t) > 0, NEW a, Return(t, a)
    PROVE  StackOK' /\ CallersOK' /\ FramesOK'
<1>1. CallersOK'
  BY AfterReturn DEF Control, CallersOK
<1>2. FramesOK'
  BY AfterReturn DEF Control, FramesOK
<1>3. QED
  BY <1>1, <1>2, AfterReturn DEF Control

LEMMA PushControl ==
    ASSUME Control, NEW t \in Threads, NEW op \in Ops, NEW block \in Block \cup {NoBlock}, NEW n \in Nat,
           Push(t, op, block, n), Depth(t) > 0 => Top(t).stage \in {"dlsym", "insert"},
           op \in Releases <=> block \in Block, op \in Releases => block.user = UserIn(t, Depth(t)),
           op # "free" => n \in Sizes
    PROVE  StackOK' /\ CallersOK' /\ FramesOK'
<1>1. Frame(op, block, n) \in FrameType
  BY DEF Frame, FrameType, Stages, NoKey
<1>2. Depth(t) \in Nat /\ Depth(t) + 1 - 1 = Depth(t)
  BY DEF Control, StackOK, Depth
<1>3. FrameOK(Frame(op, block, n), UserIn(t, Depth(t)))
  BY DEF Frame, FrameOK, InRuntime
<1>4. User(t, Depth(t) + 1) = UserIn(t, Depth(t))
  BY <1>2 DEF User
<1>5. \A u \in Threads : \A i \in 1 .. Depth(u)' :
         \/ i \in 1 .. Depth(u) /\ stack'[u][i] = stack[u][i] /\ User(u, i)' = User(u, i)
         \/ /\ u = t /\ i = Depth(t) + 1 /\ stack'[u][i] = Frame(op, block, n)
            /\ User(u, i)' = UserIn(t, Depth(t))
  <2>1. \A u \in Threads : Depth(u) \in Nat
    BY DEF Control, StackOK, Depth
  <2>2. QED
    BY <1>1, <1>2, <1>4, <2>1, AfterPush DEF Control
<1>6. FramesOK'
  BY <1>3, <1>5 DEF Control, FramesOK
<1>7. \A i \in 1 .. Depth(t) : stack[t][i].stage \in {"dlsym", "insert"}
  BY <1>2, TopFacts DEF Control, CallersOK
<1>8. CallersOK'
  BY <1>2, <1>5, <1>7 DEF Control, CallersOK
<1>9. QED
  BY <1>1, <1>6, <1>8, AfterPush DEF Control

-----------------------------------------------------------------------------
(* The flags *)

\* A step of t that is not a change of its flag.
LEMMA GotoFlags ==
    ASSUME Control, NEW t \in Threads, Depth(t) > 0, NEW f \in FrameType, Goto(t, f),
           Top(t).stage \in InRuntime <=> f.stage \in InRuntime, UNCHANGED <<tls_key, specific>>,
           IsFiniteSet(keys')
    PROVE  FlagsOK'
<1>1. \A u \in Threads : (\E i \in 1 .. Depth(u)' : stack'[u][i].stage \in InRuntime)
                            <=> \E i \in 1 .. Depth(u) : stack[u][i].stage \in InRuntime
  BY AfterGoto, TopFacts DEF Control
<1>2. QED
  BY <1>1 DEF Control, FlagsOK

\* t enters the runtime.
LEMMA EnterFlags ==
    ASSUME Control, NEW t \in Threads, Depth(t) > 0, NEW f \in FrameType, Goto(t, f),
           f.stage \in InRuntime, User(t, Depth(t)) # "runtime", Top(t).stage \notin InRuntime,
           tls_key' # NoKey, tls_key # NoKey => tls_key' = tls_key,
           specific' = [specific EXCEPT ![t] = @ \cup {tls_key'}],
           specific \in [Threads -> SUBSET Nat], IsFiniteSet(keys')
    PROVE  FlagsOK'
<1>1. /\ Depth(t) \in 1 .. Depth(t)
      /\ \A u \in Threads :
            /\ Depth(u)' = Depth(u) /\ Depth(u) \in Nat
            /\ \A i \in 1 .. Depth(u) :
                  stack'[u][i] = IF u = t /\ i = Depth(t) THEN f ELSE stack[u][i]
  BY AfterGoto, TopFacts DEF Control, StackOK, Depth
<1>2. ~get_in_runtime(t)
  BY UserIsRuntime
<1>3. specific[t] = {}
  BY <1>2 DEF get_in_runtime, Control, FlagsOK
<1>4. \A u \in Threads : specific'[u] = IF u = t THEN {tls_key'} ELSE specific[u]
  BY <1>3
<1>5. ASSUME NEW u \in Threads
      PROVE  LET inside == \E i \in 1 .. Depth(u)' : stack'[u][i].stage \in InRuntime
             IN  /\ inside => tls_key' # NoKey
                 /\ specific'[u] = IF inside THEN {tls_key'} ELSE {}
  <2>1. CASE u = t
    BY <1>1, <1>4, <2>1
  <2>2. CASE u # t
    BY <1>1, <1>4, <2>2 DEF Control, FlagsOK
  <2>3. QED
    BY <2>1, <2>2
<1>6. QED
  BY <1>5 DEF FlagsOK

LEMMA PushFlags ==
    ASSUME Control, NEW t \in Threads, NEW op, NEW block, NEW n,
           Frame(op, block, n) \in FrameType, Push(t, op, block, n),
           UNCHANGED <<tls_key, keys, specific>>
    PROVE  FlagsOK' /\ OwnKeys'
<1>1. \A u \in Threads : Depth(u) \in Nat
  BY DEF Control, StackOK, Depth
<1>2. \A u \in Threads : \A i \in 1 .. Depth(u)' :
         \/ i \in 1 .. Depth(u) /\ stack'[u][i] = stack[u][i]
         \/ stack'[u][i].stage = "entry"
  BY <1>1, AfterPush DEF Control, Frame
<1>3. \A u \in Threads : \A i \in 1 .. Depth(u) :
         i \in 1 .. Depth(u)' /\ stack'[u][i] = stack[u][i]
  BY <1>1, AfterPush DEF Control
<1>4. \A u \in Threads : (\E i \in 1 .. Depth(u)' : stack'[u][i].stage \in InRuntime)
                            <=> \E i \in 1 .. Depth(u) : stack[u][i].stage \in InRuntime
  BY <1>2, <1>3 DEF InRuntime
<1>5. FlagsOK'
  BY <1>4 DEF Control, FlagsOK
<1>6. OwnKeys'
  BY <1>2 DEF Control, OwnKeys
<1>7. QED
  BY <1>5, <1>6

\* t returns, out of the runtime if it was in it.
LEMMA ReturnFlags ==
    ASSUME Control, NEW t \in Threads, Depth(t) > 0, NEW a, Return(t, a),
           UNCHANGED <<tls_key, keys>>, specific \in [Threads -> SUBSET Nat],
           IF Top(t).stage \in InRuntime THEN LeaveRuntime(t) ELSE UNCHANGED specific
    PROVE  FlagsOK' /\ OwnKeys'
<1>1. \A u \in Threads : Depth(u) \in Nat
  BY DEF Control, StackOK, Depth
<1>2. \A u \in Threads : \A i \in 1 .. Depth(u)' :
         i \in 1 .. Depth(u) /\ stack'[u][i] = stack[u][i]
  BY AfterReturn DEF Control
<1>3. \A u \in Threads : \A i \in 1 .. Depth(u) :
         u # t \/ i # Depth(t) => i \in 1 .. Depth(u)' /\ stack'[u][i] = stack[u][i]
  BY <1>1, AfterReturn DEF Control
<1>4. OwnKeys'
  BY <1>2 DEF Control, OwnKeys
<1>5. CASE Top(t).stage \in InRuntime
  <2>1. \A i \in 1 .. Depth(t)' : stack'[t][i].stage \notin InRuntime
    <3>1. \A i \in 1 .. Depth(t)' : i \in 1 .. Depth(t) /\ i < Depth(t)
      BY <1>1, AfterReturn DEF Control
    <3>2. QED
      BY <1>2, <1>5, <3>1, OneInRuntime, TopFacts DEF Control
  <2>2. specific[t] = {tls_key}
    BY <1>5, TopFacts DEF Control, FlagsOK
  <2>3. \A u \in Threads : specific'[u] = IF u = t THEN {} ELSE specific[u]
    BY <1>5, <2>2 DEF LeaveRuntime
  <2>4. \A u \in Threads \ {t} :
           (\E i \in 1 .. Depth(u)' : stack'[u][i].stage \in InRuntime)
              <=> \E i \in 1 .. Depth(u) : stack[u][i].stage \in InRuntime
    BY <1>2, <1>3
  <2>5. FlagsOK'
    BY <2>1, <2>3, <2>4 DEF Control, FlagsOK
  <2>6. QED
    BY <1>4, <2>5
<1>6. CASE Top(t).stage \notin InRuntime
  <2>1. \A u \in Threads :
           (\E i \in 1 .. Depth(u)' : stack'[u][i].stage \in InRuntime)
              <=> \E i \in 1 .. Depth(u) : stack[u][i].stage \in InRuntime
    BY <1>2, <1>3, <1>6, TopFacts DEF Control
  <2>2. FlagsOK'
    BY <1>6, <2>1 DEF Control, FlagsOK
  <2>3. QED
    BY <1>4, <2>2
<1>7. QED
  BY <1>5, <1>6

\* t has made no key, or has tried to store it.
LEMMA GotoOwnKeys ==
    ASSUME Control, NEW t \in Threads, Depth(t) > 0, NEW f \in FrameType, Goto(t, f),
           f.stage # "key", UNCHANGED tls_key, UNCHANGED keys
    PROVE  OwnKeys'
<1>1. \A u \in Threads : \A i \in 1 .. Depth(u)' :
         i \in 1 .. Depth(u) /\ (stack'[u][i].stage = "key" => stack'[u][i] = stack[u][i])
  BY AfterGoto DEF Control
<1>2. QED
  BY <1>1 DEF Control, OwnKeys

-----------------------------------------------------------------------------
(* The blocks of the real allocator *)

\* What the innermost call of t has is held by nobody else.
LEMMA TopCarries ==
    ASSUME Control, HeapOK, NEW t \in Threads, Depth(t) > 0, NEW a \in Carried(Top(t))
    PROVE  /\ a \in heap /\ (a \in table <=> Tracked(Top(t), a))
           /\ \A b \in blocks : b.at # a
           /\ \A u \in Threads : \A i \in 1 .. Depth(u) :
                 u # t \/ i # Depth(t) => a \notin Carried(stack[u][i])
<1>1. Depth(t) \in 1 .. Depth(t) /\ Top(t) = stack[t][Depth(t)]
  BY TopFacts DEF Control
<1>2. a \in HeapAddr
  BY DEF Carried
<1>3. \A b \in blocks : b.at # a
  BY <1>1, <1>2 DEF HeapOK
<1>4. \A u \in Threads : \A i \in 1 .. Depth(u) :
         u # t \/ i # Depth(t) => a \notin Carried(stack[u][i])
  BY <1>1 DEF HeapOK
<1>5. a \in heap /\ (a \in table <=> Tracked(Top(t), a))
  BY <1>1 DEF HeapOK, Tracked
<1>6. QED
  BY <1>3, <1>4, <1>5

\* Whatever else is held is in the heap, and no other step changes it.
LEMMA OthersHeld ==
    ASSUME Control, HeapOK, NEW t \in Threads, Depth(t) > 0, NEW S,
           \A a \in S : a \in Carried(Top(t)) \/ a \notin heap,
           \A a \in HeapAddr \ (S \cup Carried(Top(t))) :
              (a \in heap' <=> a \in heap) /\ (a \in table' <=> a \in table)
    PROVE  /\ \A b \in blocks : b.at \in HeapAddr =>
                 b.at \notin S /\ b.at \in heap' /\ (b.at \in table' <=> b.user # "runtime")
           /\ \A u \in Threads : \A i \in 1 .. Depth(u) : u # t \/ i # Depth(t) =>
                 \A a \in Carried(stack[u][i]) :
                    a \notin S /\ a \in heap' /\ (a \in table' <=> Tracked(stack[u][i], a))
<1>1. ASSUME NEW b \in blocks, b.at \in HeapAddr
      PROVE  b.at \notin S /\ b.at \in heap' /\ (b.at \in table' <=> b.user # "runtime")
  <2>1. b.at \in heap /\ (b.at \in table <=> b.user # "runtime")
    BY <1>1 DEF HeapOK
  <2>2. b.at \notin Carried(Top(t))
    BY <1>1, TopCarries
  <2>3. QED
    BY <1>1, <2>1, <2>2
<1>2. ASSUME NEW u \in Threads, NEW i \in 1 .. Depth(u), u # t \/ i # Depth(t),
             NEW a \in Carried(stack[u][i])
      PROVE  a \notin S /\ a \in heap' /\ (a \in table' <=> Tracked(stack[u][i], a))
  <2>1. a \in heap /\ (a \in table <=> Tracked(stack[u][i], a)) /\ a \in HeapAddr
    BY <1>2 DEF HeapOK, Tracked, Carried
  <2>2. a \notin Carried(Top(t))
    BY <1>2, TopCarries
  <2>3. QED
    BY <2>1, <2>2
<1>3. QED
  BY <1>1, <1>2

\* A step within the innermost call of t: what it has then, it had, or was free.
LEMMA GotoHeap ==
    ASSUME Control, HeapOK, NEW t \in Threads, Depth(t) > 0, NEW f \in FrameType, Goto(t, f),
           UNCHANGED blocks, table' \subseteq heap',
           \A a \in Carried(f) : /\ a \in Carried(Top(t)) \/ a \notin heap
                                 /\ a \in heap' /\ (a \in table' <=> Tracked(f, a)),
           \A a \in HeapAddr \ (Carried(f) \cup Carried(Top(t))) :
              (a \in heap' <=> a \in heap) /\ (a \in table' <=> a \in table)
    PROVE  HeapOK'
<1>1. /\ \A b \in blocks : b.at \in HeapAddr =>
            b.at \notin Carried(f) /\ b.at \in heap' /\ (b.at \in table' <=> b.user # "runtime")
      /\ \A u \in Threads : \A i \in 1 .. Depth(u) : u # t \/ i # Depth(t) =>
            \A a \in Carried(stack[u][i]) :
               a \notin Carried(f) /\ a \in heap' /\ (a \in table' <=> Tracked(stack[u][i], a))
  BY OthersHeld
<1>2. \A u \in Threads : \A i \in 1 .. Depth(u)' :
         i \in 1 .. Depth(u) /\ stack'[u][i] = IF u = t /\ i = Depth(t) THEN f ELSE stack[u][i]
  BY AfterGoto DEF Control
<1>3. ASSUME NEW b \in blocks', b.at \in HeapAddr
      PROVE  /\ b.at \in heap' /\ (b.at \in table' <=> b.user # "runtime")
             /\ \A c \in blocks' : c.at = b.at => c = b
             /\ \A u \in Threads : \A i \in 1 .. Depth(u)' : b.at \notin Carried(stack'[u][i])
  BY <1>1, <1>2, <1>3 DEF HeapOK
<1>4. ASSUME NEW u \in Threads, NEW i \in 1 .. Depth(u)', NEW a \in Carried(stack'[u][i])
      PROVE  /\ a \in heap' /\ (a \in table' <=> Tracked(stack'[u][i], a))
             /\ \A v \in Threads : \A j \in 1 .. Depth(v)' :
                   <<v, j>> # <<u, i>> => a \notin Carried(stack'[v][j])
  <2>1. CASE u = t /\ i = Depth(t)
    BY <1>1, <1>2, <1>4, <2>1
  <2>2. CASE u # t \/ i # Depth(t)
    <3>1. i \in 1 .. Depth(u) /\ a \in Carried(stack[u][i]) /\ stack'[u][i] = stack[u][i]
      BY <1>2, <1>4, <2>2
    <3>2. a \notin Carried(f) /\ a \in heap' /\ (a \in table' <=> Tracked(stack[u][i], a))
      BY <1>1, <2>2, <3>1
    <3>3. \A v \in Threads : \A j \in 1 .. Depth(v) :
             <<v, j>> # <<u, i>> => a \notin Carried(stack[v][j])
      BY <3>1 DEF HeapOK
    <3>4. QED
      BY <1>2, <3>1, <3>2, <3>3
  <2>3. QED
    BY <2>1, <2>2
<1>5. QED
  BY <1>3, <1>4 DEF HeapOK, Tracked

\* The innermost call of t comes to an end and leaves its caller the block b, if any.
LEMMA ReturnHeap ==
    ASSUME Control, HeapOK, NEW t \in Threads, Depth(t) > 0, NEW r, Return(t, r),
           NEW N, blocks' = blocks \cup N, table' \subseteq heap',
           \A b, c \in N : b = c,
           \A b \in N : b.at \in HeapAddr =>
              /\ b.at \in Carried(Top(t)) \/ b.at \notin heap
              /\ b.at \in heap' /\ (b.at \in table' <=> b.user # "runtime"),
           \A a \in HeapAddr \ Carried(Top(t)) : (\A b \in N : b.at # a) =>
              (a \in heap' <=> a \in heap) /\ (a \in table' <=> a \in table)
    PROVE  HeapOK'
<1> DEFINE S == {b.at : b \in N} \cap HeapAddr
<1>1. /\ \A a \in S : a \in Carried(Top(t)) \/ a \notin heap
      /\ \A a \in HeapAddr \ (S \cup Carried(Top(t))) :
            (a \in heap' <=> a \in heap) /\ (a \in table' <=> a \in table)
  OBVIOUS
<1>2. \A b \in N : b.at \in HeapAddr => b.at \in S
  OBVIOUS
<1>3. \A a \in S : \E b \in N : b.at = a
  OBVIOUS
<1> HIDE DEF S
<1>4. /\ \A b \in blocks : b.at \in HeapAddr =>
            b.at \notin S /\ b.at \in heap' /\ (b.at \in table' <=> b.user # "runtime")
      /\ \A u \in Threads : \A i \in 1 .. Depth(u) : u # t \/ i # Depth(t) =>
            \A a \in Carried(stack[u][i]) :
               a \notin S /\ a \in heap' /\ (a \in table' <=> Tracked(stack[u][i], a))
  BY <1>1, OthersHeld
<1>5. \A u \in Threads : \A i \in 1 .. Depth(u)' :
         i \in 1 .. Depth(u) /\ (u # t \/ i # Depth(t)) /\ stack'[u][i] = stack[u][i]
  BY AfterReturn DEF Control
<1>6. ASSUME NEW b \in blocks', b.at \in HeapAddr
      PROVE  /\ b.at \in heap' /\ (b.at \in table' <=> b.user # "runtime")
             /\ \A c \in blocks' : c.at = b.at => c = b
             /\ \A u \in Threads : \A i \in 1 .. Depth(u)' : b.at \notin Carried(stack'[u][i])
  <2>1. CASE b \in N
    <3>1. b.at \in S
      BY <1>2, <1>6, <2>1
    <3>2. \A c \in blocks' : c.at = b.at => c = b
      BY <1>4, <1>6, <2>1, <3>1
    <3>3. \A u \in Threads : \A i \in 1 .. Depth(u)' : b.at \notin Carried(stack'[u][i])
      BY <1>4, <1>5, <3>1
    <3>4. QED
      BY <1>6, <2>1, <3>2, <3>3
  <2>2. CASE b \in blocks /\ b \notin N
    <3>1. \A c \in blocks' : c.at = b.at => c = b
      BY <1>2, <1>4, <1>6, <2>2 DEF HeapOK
    <3>2. \A u \in Threads : \A i \in 1 .. Depth(u)' : b.at \notin Carried(stack'[u][i])
      BY <1>5, <1>6, <2>2 DEF HeapOK
    <3>3. QED
      BY <1>4, <1>6, <2>2, <3>1, <3>2
  <2>3. QED
    BY <1>6, <2>1, <2>2
<1>7. ASSUME NEW u \in Threads, NEW i \in 1 .. Depth(u)', NEW a \in Carried(stack'[u][i])
      PROVE  /\ a \in heap' /\ (a \in table' <=> Tracked(stack'[u][i], a))
             /\ \A v \in Threads : \A j \in 1 .. Depth(v)' :
                   <<v, j>> # <<u, i>> => a \notin Carried(stack'[v][j])
  <2>1. i \in 1 .. Depth(u) /\ a \in Carried(stack[u][i]) /\ stack'[u][i] = stack[u][i]
    BY <1>5, <1>7
  <2>2. \A v \in Threads : \A j \in 1 .. Depth(v) :
           <<v, j>> # <<u, i>> => a \notin Carried(stack[v][j])
    BY <2>1 DEF HeapOK
  <2>3. QED
    BY <1>4, <1>5, <1>7, <2>1, <2>2
<1>8. QED
  BY <1>6, <1>7 DEF HeapOK, Tracked

\* A call: its caller gives up the block, if there is one.
LEMMA CallPushes ==
    ASSUME blocks \subseteq Block, NEW t \in Threads, NEW op \in Ops, NEW n \in Sizes, Call(t, op, n)
    PROVE  \E block \in Block \cup {NoBlock}, m \in Nat :
              /\ Push(t, op, block, m)
              /\ op \in Releases <=> block \in Block
              /\ op \in Releases => block \in blocks /\ block.user = UserIn(t, Depth(t))
              /\ op # "free" => m \in Sizes
              /\ blocks' = blocks \ {block}
<1>1. NoBlock \notin Block /\ n \in Nat
  BY EntryAssumption DEF NoBlock, Block
<1>2. CASE op \in {"malloc", "aligned_alloc"} /\ Push(t, op, NoBlock, n) /\ UNCHANGED blocks
  <2>1. blocks' = blocks \ {NoBlock} /\ op \notin Releases
    BY <1>1, <1>2 DEF Releases
  <2>2. QED
    BY <1>1, <1>2, <2>1
<1>3. CASE op \in Releases /\ \E b \in blocks : /\ b.user = UserIn(t, Depth(t))
                                              /\ blocks' = blocks \ {b}
                                              /\ Push(t, op, b, IF op = "free" THEN 0 ELSE n)
  BY <1>1, <1>3
<1>4. QED
  BY <1>2, <1>3 DEF Call, Releases

LEMMA PushHeap ==
    ASSUME Control, HeapOK, blocks \subseteq Block, NEW t \in Threads,
           NEW op \in Ops, NEW block \in Block \cup {NoBlock}, NEW n \in Nat,
           Push(t, op, block, n), op \in Releases <=> block \in Block,
           op \in Releases => block \in blocks,
           blocks' = blocks \ {block}, UNCHANGED <<table, heap>>
    PROVE  HeapOK'
<1>1. PICK f : f = Frame(op, block, n)
  OBVIOUS
<1>2. f \in FrameType /\ f.stage = "entry" /\ f.block = block /\ f.at = Null
  BY <1>1 DEF Frame, FrameType, Stages, NoKey
<1>3. Depth(t) \in Nat
  BY DEF Control, StackOK, Depth
<1>4. \A u \in Threads : \A i \in 1 .. Depth(u)' :
         \/ i \in 1 .. Depth(u) /\ stack'[u][i] = stack[u][i]
         \/ u = t /\ i = Depth(t) + 1 /\ stack'[u][i] = f
  <2>1. \A u \in Threads : Depth(u) \in Nat
    BY DEF Control, StackOK, Depth
  <2>2. QED
    BY <1>1, <1>2, <2>1, AfterPush DEF Control
<1>5. ASSUME NEW a \in Carried(f) PROVE a = block.at /\ block \in blocks /\ a \in HeapAddr
  <2>1. a \in {block.at, Null} /\ a \in HeapAddr
    BY <1>2 DEF Carried
  <2>2. Null \notin HeapAddr
    BY EntryAssumption DEF Null
  <2>3. block.at = a
    BY <2>1, <2>2
  <2>4. block # NoBlock
    BY <2>1, <2>2, <2>3 DEF NoBlock
  <2>5. QED
    BY <2>1, <2>3, <2>4
<1>6. ASSUME NEW a \in Carried(f)
      PROVE  /\ a \in heap /\ (a \in table <=> Tracked(f, a))
             /\ \A b \in blocks \ {block} : b.at # a
             /\ \A u \in Threads : \A i \in 1 .. Depth(u) : a \notin Carried(stack[u][i])
  BY <1>2, <1>5, <1>6 DEF HeapOK, Tracked
<1>7. ASSUME NEW b \in blocks', b.at \in HeapAddr
      PROVE  /\ b.at \in heap' /\ (b.at \in table' <=> b.user # "runtime")
             /\ \A c \in blocks' : c.at = b.at => c = b
             /\ \A u \in Threads : \A i \in 1 .. Depth(u)' : b.at \notin Carried(stack'[u][i])
  BY <1>4, <1>6, <1>7 DEF HeapOK
<1>8. ASSUME NEW u \in Threads, NEW i \in 1 .. Depth(u)', NEW a \in Carried(stack'[u][i])
      PROVE  /\ a \in heap' /\ (a \in table' <=> Tracked(stack'[u][i], a))
             /\ \A v \in Threads : \A j \in 1 .. Depth(v)' :
                   <<v, j>> # <<u, i>> => a \notin Carried(stack'[v][j])
  <2>1. CASE i \in 1 .. Depth(u) /\ stack'[u][i] = stack[u][i]
    <3>1. a \in heap /\ (a \in table <=> Tracked(stack[u][i], a))
      BY <1>8, <2>1 DEF HeapOK
    <3>2. a \notin Carried(f)
      BY <1>6, <1>8, <2>1
    <3>3. \A v \in Threads : \A j \in 1 .. Depth(v) :
             <<v, j>> # <<u, i>> => a \notin Carried(stack[v][j])
      BY <1>8, <2>1 DEF HeapOK
    <3>4. QED
      BY <1>4, <2>1, <3>1, <3>2, <3>3
  <2>2. CASE u = t /\ i = Depth(t) + 1 /\ stack'[u][i] = f
    BY <1>4, <1>6, <1>8, <2>2
  <2>3. QED
    BY <1>4, <2>1, <2>2
<1>9. QED
  BY <1>7, <1>8 DEF HeapOK

-----------------------------------------------------------------------------
(* The buffer *)

LEMMA Alignment ==
    ASSUME NEW n \in Nat
    PROVE  AlignUp(n) \in Nat /\ AlignUp(n) >= n /\ AlignUp(n) % Align = 0
<1>1. Align \in Nat /\ Align > 0
  BY EntryAssumption
<1>2. PICK A \in Nat, m \in Nat : A = Align /\ m = n + Align - 1
  BY <1>1
<1>3. (m \div A) \in Nat /\ m = A * (m \div A) + (m % A) /\ m % A \in 0 .. A - 1
  BY <1>1, <1>2
<1>4. PICK q \in Nat : q = m \div A
  BY <1>3
<1>5. AlignUp(n) = q * A /\ q * A \in Nat
  BY <1>2, <1>4 DEF AlignUp
<1>6. q * A >= n
  BY <1>1, <1>2, <1>3, <1>4
<1>7. (q * A) % A = 0
  BY <1>1, <1>2, <1>4
<1>8. QED
  BY <1>2, <1>5, <1>6, <1>7

LEMMA DisjointIsSymmetric ==
    ASSUME NEW b, NEW c, Disjoint(b, c)
    PROVE  Disjoint(c, b)
BY DEF Disjoint

LEMMA GotoBuffer ==
    ASSUME Control, BufferOK, NEW t \in Threads, Depth(t) > 0, NEW f \in FrameType, Goto(t, f),
           f.block = Top(t).block, UNCHANGED <<blocks, index>>, f.stage = "bump" => index <= f.at
    PROVE  BufferOK' /\ (BufferOrder => BufferOrder')
<1>1. Depth(t) \in 1 .. Depth(t) /\ Top(t) = stack[t][Depth(t)]
  BY TopFacts DEF Control
<1>2. \A u \in Threads : \A i \in 1 .. Depth(u)' :
         /\ i \in 1 .. Depth(u) /\ stack'[u][i].block = stack[u][i].block
         /\ stack'[u][i].stage = "bump" =>
               \/ stack'[u][i] = stack[u][i]
               \/ index <= stack'[u][i].at
  BY <1>1, AfterGoto DEF Control
<1>3. \A u \in Threads : \A i \in 1 .. Depth(u)' : BufferFrame(u, i)' <=> BufferFrame(u, i)
  BY <1>2 DEF BufferFrame
<1>4. BufferOK'
  BY <1>2, <1>3 DEF BufferOK
<1>5. ASSUME BufferOrder PROVE BufferOrder'
  <2>1. \A b, c \in blocks : Disjoint(b, c)' <=> Disjoint(b, c)
    BY DEF Disjoint
  <2>2. \A u \in Threads : \A i \in 1 .. Depth(u)' :
           /\ stack'[u][i].stage = "bump" => index' <= stack'[u][i].at
           /\ BufferFrame(u, i)' =>
                 /\ stack'[u][i].block.at + stack'[u][i].block.size <= index'
                 /\ \A b \in blocks' : is_bootstrap_ptr(b.at) => Disjoint(b, stack'[u][i].block)
                 /\ \A v \in Threads : \A j \in 1 .. Depth(v)' :
                       BufferFrame(v, j)' /\ <<v, j>> # <<u, i>> =>
                          Disjoint(stack'[u][i].block, stack'[v][j].block)
    BY <1>2, <1>3, <1>5 DEF BufferOrder
  <2>3. QED
    BY <1>5, <2>2 DEF BufferOrder
<1>6. QED
  BY <1>4, <1>5

\* A call comes to an end, and its caller has again the block it gave up, or one of the
\* real allocator.
LEMMA ReturnBuffer ==
    ASSUME Control, BufferOK, NEW t \in Threads, Depth(t) > 0, NEW r, Return(t, r),
           NEW N, blocks' = blocks \cup N, \A b, c \in N : b = c,
           \A b \in N : is_bootstrap_ptr(b.at) => b = Top(t).block, UNCHANGED index
    PROVE  BufferOK' /\ (BufferOrder => BufferOrder')
<1>1. Depth(t) \in 1 .. Depth(t) /\ Top(t) = stack[t][Depth(t)]
  BY TopFacts DEF Control
<1>2. \A u \in Threads : \A i \in 1 .. Depth(u)' :
         i \in 1 .. Depth(u) /\ (u # t \/ i # Depth(t)) /\ stack'[u][i] = stack[u][i]
  BY AfterReturn DEF Control
<1>3. \A u \in Threads : \A i \in 1 .. Depth(u)' : BufferFrame(u, i)' <=> BufferFrame(u, i)
  BY <1>2 DEF BufferFrame
<1>4. \A b \in N : is_bootstrap_ptr(b.at) => BufferFrame(t, Depth(t)) /\ b = stack[t][Depth(t)].block
  BY <1>1 DEF BufferFrame
<1>5. BufferOK'
  BY <1>1, <1>2, <1>3, <1>4 DEF BufferOK
<1>6. ASSUME BufferOrder PROVE BufferOrder'
  <2>1. ASSUME NEW b \in blocks', is_bootstrap_ptr(b.at)
        PROVE  /\ b.at + b.size <= index'
               /\ \A c \in blocks' \ {b} : is_bootstrap_ptr(c.at) => Disjoint(b, c)
    <3>1. CASE b \in N
      <4>1. BufferFrame(t, Depth(t)) /\ b = stack[t][Depth(t)].block
        BY <1>4, <2>1, <3>1
      <4>2. b.at + b.size <= index /\ \A c \in blocks : is_bootstrap_ptr(c.at) => Disjoint(c, b)
        BY <1>1, <1>6, <4>1 DEF BufferOrder
      <4>3. QED
        BY <3>1, <4>2, DisjointIsSymmetric
    <3>2. CASE b \in blocks
      <4>1. /\ b.at + b.size <= index
            /\ \A c \in blocks \ {b} : is_bootstrap_ptr(c.at) => Disjoint(b, c)
        BY <1>6, <2>1, <3>2 DEF BufferOrder
      <4>2. \A c \in N : is_bootstrap_ptr(c.at) => Disjoint(b, c)
        BY <1>1, <1>4, <1>6, <2>1, <3>2 DEF BufferOrder
      <4>3. QED
        BY <4>1, <4>2
    <3>3. QED
      BY <2>1, <3>1, <3>2
  <2>2. ASSUME NEW u \in Threads, NEW i \in 1 .. Depth(u)'
        PROVE  /\ stack'[u][i].stage = "bump" => index' <= stack'[u][i].at
               /\ BufferFrame(u, i)' =>
                 /\ stack'[u][i].block.at + stack'[u][i].block.size <= index'
                 /\ \A b \in blocks' : is_bootstrap_ptr(b.at) => Disjoint(b, stack'[u][i].block)
                 /\ \A v \in Threads : \A j \in 1 .. Depth(v)' :
                       BufferFrame(v, j)' /\ <<v, j>> # <<u, i>> =>
                          Disjoint(stack'[u][i].block, stack'[v][j].block)
    <3>1. /\ i \in 1 .. Depth(u) /\ (u # t \/ i # Depth(t)) /\ stack'[u][i] = stack[u][i]
          /\ BufferFrame(u, i)' <=> BufferFrame(u, i)
      BY <1>2, <1>3, <2>2
    <3>2. stack[u][i].stage = "bump" => index <= stack[u][i].at
      BY <1>6, <3>1 DEF BufferOrder
    <3>3. ASSUME BufferFrame(u, i)
          PROVE  /\ stack[u][i].block.at + stack[u][i].block.size <= index
                 /\ \A b \in blocks : is_bootstrap_ptr(b.at) => Disjoint(b, stack[u][i].block)
                 /\ \A v \in Threads : \A j \in 1 .. Depth(v) :
                       BufferFrame(v, j) /\ <<v, j>> # <<u, i>> =>
                          Disjoint(stack[u][i].block, stack[v][j].block)
      BY <1>6, <3>1, <3>3 DEF BufferOrder
    <3>4. ASSUME BufferFrame(u, i), NEW b \in N, is_bootstrap_ptr(b.at)
          PROVE  Disjoint(b, stack[u][i].block)
      <4>1. BufferFrame(t, Depth(t)) /\ b = stack[t][Depth(t)].block
        BY <1>4, <3>4
      <4>2. Disjoint(stack[u][i].block, stack[t][Depth(t)].block)
        BY <1>1, <3>1, <3>3, <3>4, <4>1
      <4>3. QED
        BY <4>1, <4>2, DisjointIsSymmetric
    <3>5. QED
      BY <1>2, <1>3, <3>1, <3>2, <3>3, <3>4
  <2>3. QED
    BY <2>1, <2>2 DEF BufferOrder
<1>7. QED
  BY <1>5, <1>6

\* A call gets a block of the buffer, above all there are if no other thread gets one.
LEMMA BumpBuffer ==
    ASSUME Control, BufferOK, NEW t \in Threads, At(t, "bump"), Return(t, Top(t).at),
           NEW n, blocks' = blocks \cup {n}, n.at = Top(t).at, n.size = Top(t).size,
           index' = n.at + n.size, index \in Nat, blocks \subseteq Block
    PROVE  /\ BufferOK' /\ index' \in 0 .. BufferSize
           /\ BufferOrder /\ (\A u \in Threads \ {t} : ~At(u, "bump")) => BufferOrder'
<1>1. Depth(t) > 0 /\ Depth(t) \in 1 .. Depth(t) /\ Top(t) = stack[t][Depth(t)] /\ Top(t) \in FrameType
  BY TopFacts DEF Control, At
<1>2. \A u \in Threads : \A i \in 1 .. Depth(u)' :
         i \in 1 .. Depth(u) /\ (u # t \/ i # Depth(t)) /\ stack'[u][i] = stack[u][i]
  BY <1>1, AfterReturn DEF Control
<1>3. \A u \in Threads : \A i \in 1 .. Depth(u)' : BufferFrame(u, i)' <=> BufferFrame(u, i)
  BY <1>2 DEF BufferFrame
<1>4. /\ n.at \in BufferAddr /\ Placed(n.at, n.size) /\ Top(t).stage = "bump"
      /\ n.size \in Nat /\ BufferSize \in Nat
  BY <1>1, EntryAssumption DEF Control, FramesOK, FrameOK, At, FrameType
<1>5. index' \in 0 .. BufferSize
  BY <1>4 DEF Placed, BufferAddr
<1>6. BufferOK'
  BY <1>2, <1>3, <1>4 DEF BufferOK
<1>7. ASSUME BufferOrder, \A u \in Threads \ {t} : ~At(u, "bump") PROVE BufferOrder'
  <2>1. index <= n.at /\ index' >= index
    BY <1>1, <1>4, <1>5, <1>7 DEF BufferOrder, BufferAddr
  <2>2. \A u \in Threads : \A i \in 1 .. Depth(u)' : stack'[u][i].stage # "bump"
    <3>1. ASSUME NEW u \in Threads, NEW i \in 1 .. Depth(u)', stack'[u][i].stage = "bump" PROVE FALSE
      <4>1. i \in 1 .. Depth(u) /\ stack[u][i].stage = "bump" /\ Depth(u) \in Nat
        BY <1>2, <3>1 DEF Control, StackOK, Depth
      <4>2. i = Depth(u)
        BY <4>1 DEF Control, CallersOK
      <4>3. At(u, "bump")
        BY <4>1, <4>2, TopFacts DEF At, Control
      <4>4. QED
        BY <1>2, <1>7, <3>1, <4>2, <4>3
    <3>2. QED
      BY <3>1
  <2>3. \A b \in blocks : is_bootstrap_ptr(b.at) =>
           /\ b.at \in Nat /\ b.size \in Nat /\ b.at + b.size <= index
           /\ b.at + b.size <= index' /\ Disjoint(b, n) /\ Disjoint(n, b)
    <3>1. \A b \in blocks : is_bootstrap_ptr(b.at) => b.at \in Nat /\ b.size \in Nat
      BY EntryAssumption DEF Block, is_bootstrap_ptr
    <3>2. \A b \in blocks : is_bootstrap_ptr(b.at) => b.at + b.size <= index
      BY <1>7 DEF BufferOrder
    <3>3. index' \in Nat /\ n.at \in Nat
      BY <1>4, <1>5 DEF BufferAddr
    <3>4. QED
      BY <2>1, <3>1, <3>2, <3>3 DEF Disjoint
  <2>4. n.at + n.size <= index'
    BY <1>4, <1>5
  <2>5. ASSUME NEW u \in Threads, NEW i \in 1 .. Depth(u)', BufferFrame(u, i)'
        PROVE  /\ stack'[u][i].block.at + stack'[u][i].block.size <= index'
               /\ \A b \in blocks' : is_bootstrap_ptr(b.at) => Disjoint(b, stack'[u][i].block)
               /\ \A v \in Threads : \A j \in 1 .. Depth(v)' :
                     BufferFrame(v, j)' /\ <<v, j>> # <<u, i>> =>
                        Disjoint(stack'[u][i].block, stack'[v][j].block)
    <3>1. i \in 1 .. Depth(u) /\ stack'[u][i] = stack[u][i] /\ BufferFrame(u, i)
      BY <1>2, <1>3, <2>5
    <3>2. PICK c : c = stack[u][i].block
      OBVIOUS
    <3>3. /\ c.at + c.size <= index
          /\ \A b \in blocks : is_bootstrap_ptr(b.at) => Disjoint(b, c)
          /\ \A v \in Threads : \A j \in 1 .. Depth(v) :
                BufferFrame(v, j) /\ <<v, j>> # <<u, i>> => Disjoint(c, stack[v][j].block)
      BY <1>7, <3>1, <3>2 DEF BufferOrder
    <3>4. c.at \in Nat /\ c.size \in Nat
      <4>1. stack[u] \in Seq(FrameType) /\ i \in 1 .. Len(stack[u])
        BY <3>1 DEF Control, StackOK, Depth
      <4>2. stack[u][i] \in FrameType
        BY <4>1
      <4>3. c \in Block \cup {NoBlock} /\ is_bootstrap_ptr(c.at)
        BY <3>1, <3>2, <4>2 DEF BufferFrame, FrameType
      <4>4. QED
        BY <4>3, EntryAssumption DEF Block, NoBlock, is_bootstrap_ptr
    <3>5. n.at \in Nat /\ index' \in Nat
      BY <1>4, <1>5 DEF BufferAddr
    <3>6. Disjoint(n, c) /\ c.at + c.size <= index'
      BY <2>1, <3>3, <3>4, <3>5 DEF Disjoint
    <3>7. QED
      BY <1>2, <1>3, <3>1, <3>2, <3>3, <3>6
  <2>6. ASSUME NEW b \in blocks', is_bootstrap_ptr(b.at)
        PROVE  /\ b.at + b.size <= index'
               /\ \A c \in blocks' \ {b} : is_bootstrap_ptr(c.at) => Disjoint(b, c)
    <3>1. CASE b = n
      BY <2>3, <2>4, <3>1
    <3>2. CASE b \in blocks
      <4>1. \A c \in blocks \ {b} : is_bootstrap_ptr(c.at) => Disjoint(b, c)
        BY <1>7, <2>6, <3>2 DEF BufferOrder
      <4>2. QED
        BY <2>3, <2>6, <3>2, <4>1
    <3>3. QED
      BY <2>6, <3>1, <3>2
  <2>7. QED
    BY <2>2, <2>5, <2>6 DEF BufferOrder
<1>8. QED
  BY <1>5, <1>6, <1>7

LEMMA PushBuffer ==
    ASSUME Control, BufferOK, NEW t \in Threads,
           NEW op \in Ops, NEW block \in Block \cup {NoBlock}, NEW n \in Nat,
           Push(t, op, block, n), op \in Releases <=> block \in Block,
           op \in Releases => block \in blocks,
           blocks' = blocks \ {block}, UNCHANGED index
    PROVE  BufferOK' /\ (BufferOrder => BufferOrder')
<1>1. PICK f : f = Frame(op, block, n)
  OBVIOUS
<1>2. f \in FrameType /\ f.stage = "entry" /\ f.block = block
  BY <1>1 DEF Frame, FrameType, Stages, NoKey
<1>3. \A u \in Threads : \A i \in 1 .. Depth(u)' :
         \/ i \in 1 .. Depth(u) /\ stack'[u][i] = stack[u][i] /\ (BufferFrame(u, i)' <=> BufferFrame(u, i))
         \/ /\ u = t /\ i = Depth(t) + 1 /\ stack'[u][i] = f
            /\ BufferFrame(u, i)' <=> is_bootstrap_ptr(block.at)
  <2>1. \A u \in Threads : Depth(u) \in Nat
    BY DEF Control, StackOK, Depth
  <2>2. \A u \in Threads : \A i \in 1 .. Depth(u)' :
           \/ i \in 1 .. Depth(u) /\ stack'[u][i] = stack[u][i]
           \/ u = t /\ i = Depth(t) + 1 /\ stack'[u][i] = f
    BY <1>1, <1>2, <2>1, AfterPush DEF Control
  <2>3. QED
    BY <1>2, <2>2 DEF BufferFrame
<1>4. is_bootstrap_ptr(block.at) => block \in blocks
  BY DEF NoBlock, Null, is_bootstrap_ptr
<1>5. BufferOK'
  BY <1>2, <1>3, <1>4 DEF BufferOK
<1>6. ASSUME BufferOrder PROVE BufferOrder'
  <2>1. \A b \in blocks' : is_bootstrap_ptr(b.at) =>
           /\ b.at + b.size <= index'
           /\ \A c \in blocks' \ {b} : is_bootstrap_ptr(c.at) => Disjoint(b, c)
    BY <1>6 DEF BufferOrder
  <2>2. is_bootstrap_ptr(block.at) =>
           /\ block.at + block.size <= index
           /\ \A b \in blocks' : is_bootstrap_ptr(b.at) => Disjoint(b, block)
           /\ \A u \in Threads : \A i \in 1 .. Depth(u) : BufferFrame(u, i) =>
                 Disjoint(stack[u][i].block, block) /\ Disjoint(block, stack[u][i].block)
    BY <1>4, <1>6, DisjointIsSymmetric DEF BufferOrder
  <2>3. ASSUME NEW u \in Threads, NEW i \in 1 .. Depth(u)'
        PROVE  /\ stack'[u][i].stage = "bump" => index' <= stack'[u][i].at
               /\ BufferFrame(u, i)' =>
                 /\ stack'[u][i].block.at + stack'[u][i].block.size <= index'
                 /\ \A b \in blocks' : is_bootstrap_ptr(b.at) => Disjoint(b, stack'[u][i].block)
                 /\ \A v \in Threads : \A j \in 1 .. Depth(v)' :
                       BufferFrame(v, j)' /\ <<v, j>> # <<u, i>> =>
                          Disjoint(stack'[u][i].block, stack'[v][j].block)
    <3>1. CASE /\ i \in 1 .. Depth(u) /\ stack'[u][i] = stack[u][i]
               /\ BufferFrame(u, i)' <=> BufferFrame(u, i)
      <4>1. stack[u][i].stage = "bump" => index <= stack[u][i].at
        BY <1>6, <3>1 DEF BufferOrder
      <4>2. ASSUME BufferFrame(u, i)
            PROVE  /\ stack[u][i].block.at + stack[u][i].block.size <= index
                   /\ \A b \in blocks : is_bootstrap_ptr(b.at) => Disjoint(b, stack[u][i].block)
                   /\ \A v \in Threads : \A j \in 1 .. Depth(v) :
                         BufferFrame(v, j) /\ <<v, j>> # <<u, i>> =>
                            Disjoint(stack[u][i].block, stack[v][j].block)
        BY <1>6, <3>1, <4>2 DEF BufferOrder
      <4>3. QED
        BY <1>2, <1>3, <2>2, <3>1, <4>1, <4>2
    <3>2. CASE /\ u = t /\ i = Depth(t) + 1 /\ stack'[u][i] = f
               /\ BufferFrame(u, i)' <=> is_bootstrap_ptr(block.at)
      BY <1>2, <1>3, <2>2, <3>2
    <3>3. QED
      BY <1>3, <2>3, <3>1, <3>2
  <2>4. QED
    BY <2>1, <2>3 DEF BufferOrder
<1>7. QED
  BY <1>5, <1>6

-----------------------------------------------------------------------------
(* Steps that leave the flags, the tables and the heap alone *)

LEMMA AfterTypes ==
    ASSUME TypeOK, StackOK', real' \subseteq ToSet(RealFunctions), initializing' \in [Ops -> BOOLEAN],
           index' \in 0 .. BufferSize, keys' \subseteq Nat \ {NoKey}, tls_key' \in keys' \cup {NoKey},
           specific' \in [Threads -> SUBSET Nat], mutex' \in Threads \cup {Nobody},
           table' \cup heap' \subseteq HeapAddr, blocks' \subseteq Block
    PROVE  TypeOK'
<1>1. \A t \in Threads : \A i \in 1 .. Depth(t)' :
          /\ stack'[t][i].op \in Ops /\ stack'[t][i].stage \in Stages
          /\ stack'[t][i].block \in Block \cup {NoBlock}
  <2>1. ASSUME NEW t \in Threads, NEW i \in 1 .. Depth(t)' PROVE stack'[t][i] \in FrameType
    <3>1. stack'[t] \in Seq(FrameType) /\ i \in 1 .. Len(stack'[t])
      BY <2>1 DEF StackOK, Depth
    <3>2. QED
      BY <3>1
  <2>2. QED
    BY <2>1 DEF FrameType
<1>2. QED
  BY <1>1 DEF TypeOK

\* The innermost call goes on, outside the runtime.
LEMMA StageKeeps ==
    ASSUME EntryInv, NEW t \in Threads, Depth(t) > 0, NEW f \in FrameType, Goto(t, f),
           FrameOK(f, User(t, Depth(t))), f.block = Top(t).block, f.at \notin HeapAddr,
           {Top(t).stage, f.stage} \cap ({"key", "lock", "insert", "allocate"}) = {},
           f.stage = "bump" => index <= f.at,
           UNCHANGED <<index, raced, guard, mutex, table, heap, blocks, process>>,
           real' \subseteq ToSet(RealFunctions), initializing' \in [Ops -> BOOLEAN]
    PROVE  EntryInv'
<1>1. Control /\ HeapOK /\ BufferOK /\ TypeOK /\ Top(t) \in FrameType
  BY TopFacts DEF EntryInv, Control
<1>2. StackOK' /\ CallersOK' /\ FramesOK'
  BY <1>1, GotoControl
<1>3. Top(t).at \notin HeapAddr
  <2>1. FrameOK(Top(t), User(t, Depth(t))) /\ Top(t).stage \in Stages
    BY <1>1, TopFacts DEF Control, FramesOK, FrameType
  <2>2. Top(t).at \in BufferAddr \cup {Null}
    BY <2>1 DEF FrameOK, Stages
  <2>3. QED
    BY <2>2, EntryAssumption DEF BufferAddr, Null
<1>4. FlagsOK' /\ OwnKeys'
  <2>1. IsFiniteSet(keys')
    BY <1>1 DEF guard, Control, FlagsOK
  <2>2. QED
    BY <1>1, <2>1, GotoFlags, GotoOwnKeys DEF guard, InRuntime
<1>5. Carried(f) = Carried(Top(t)) /\ \A a : Tracked(f, a) <=> Tracked(Top(t), a)
  BY <1>3 DEF Carried, Tracked
<1>6. HeapOK'
  <2>1. \A a \in Carried(f) : /\ a \in Carried(Top(t)) \/ a \notin heap
                              /\ a \in heap' /\ (a \in table' <=> Tracked(f, a))
    BY <1>1, <1>5, TopCarries
  <2>2. table' \subseteq heap'
    BY <1>1 DEF HeapOK
  <2>3. QED
    BY <1>1, <2>1, <2>2, GotoHeap
<1>7. BufferOK' /\ (~raced' => BufferOrder')
  BY <1>1, GotoBuffer DEF EntryInv
<1>8. TypeOK'
  BY <1>1, <1>2, AfterTypes DEF TypeOK, guard
<1>9. QED
  BY <1>2, <1>4, <1>6, <1>7, <1>8 DEF EntryInv, Control, OwnBlocksAccepted

LEMMA CallersKind ==
    ASSUME NEW t, NEW i
    PROVE  UserIn(t, i) \in {"program", "dlsym", "runtime"}
BY DEF UserIn

\* The innermost call ends before it comes to the runtime: its caller keeps a block that
\* was to be exchanged.
LEMMA GiveUpKeeps ==
    ASSUME EntryInv, NEW t \in Threads, Depth(t) > 0, Return(t, Null),
           Top(t).stage \in {"entry", "bootstrap"},
           UNCHANGED <<startup, guard, mutex, table, heap, process>>
    PROVE  EntryInv'
<1>1. Control /\ HeapOK /\ BufferOK /\ TypeOK /\ Top(t) \in FrameType
  BY TopFacts DEF EntryInv, Control
<1> DEFINE N == IF Top(t).op = "realloc" THEN {Top(t).block} ELSE {}
<1>2. blocks' = blocks \cup N
  BY DEF Return
<1>3. \A b \in N : b = Top(t).block /\ b \in Block /\ Top(t).op \in Releases
  BY <1>1, TopFacts DEF Control, FramesOK, FrameOK, Releases
<1>4. \A b, c \in N : b = c
  OBVIOUS
<1> HIDE DEF N
<1>5. StackOK' /\ CallersOK' /\ FramesOK' /\ FlagsOK' /\ OwnKeys'
  BY <1>1, ReturnControl, ReturnFlags DEF guard, InRuntime, TypeOK
<1>6. Top(t).at = Null /\ Null \notin HeapAddr
  BY <1>1, TopFacts, EntryAssumption DEF Control, FramesOK, FrameOK, Null
<1>7. HeapOK'
  <2>1. \A b \in N : b.at \in HeapAddr =>
           /\ b.at \in Carried(Top(t))
           /\ b.at \in heap' /\ (b.at \in table' <=> b.user # "runtime")
    <3>1. ASSUME NEW b \in N, b.at \in HeapAddr PROVE b.at \in Carried(Top(t)) /\ b = Top(t).block
      BY <1>3, <3>1 DEF Carried
    <3>2. QED
      BY <1>1, <1>3, <3>1, TopCarries DEF Tracked
  <2>2. table' \subseteq heap'
    BY <1>1 DEF HeapOK
  <2>3. QED
    BY <1>1, <1>2, <1>4, <2>1, <2>2, ReturnHeap
<1>8. BufferOK' /\ (~raced' => BufferOrder')
  BY <1>1, <1>2, <1>3, <1>4, ReturnBuffer DEF EntryInv, startup
<1>9. TypeOK'
  <2>1. blocks' \subseteq Block
    BY <1>1, <1>2, <1>3 DEF TypeOK
  <2>2. QED
    BY <1>1, <1>5, <2>1, AfterTypes DEF TypeOK, guard, startup
<1>10. QED
  BY <1>5, <1>7, <1>8, <1>9 DEF EntryInv, Control, OwnBlocksAccepted

LEMMA CallKeeps ==
    ASSUME EntryInv, NEW t \in Threads, NEW op \in Ops, NEW n \in Sizes, Call(t, op, n),
           Depth(t) > 0 => Top(t).stage \in {"dlsym", "insert"},
           UNCHANGED <<startup, guard, mutex, table, heap, process>>
    PROVE  EntryInv'
<1>1. Control /\ HeapOK /\ BufferOK /\ TypeOK /\ blocks \subseteq Block
  BY DEF EntryInv, TypeOK
<1>2. PICK block \in Block \cup {NoBlock}, m \in Nat :
         /\ Push(t, op, block, m)
         /\ op \in Releases <=> block \in Block
         /\ op \in Releases => block \in blocks /\ block.user = UserIn(t, Depth(t))
         /\ op # "free" => m \in Sizes
         /\ blocks' = blocks \ {block}
  BY <1>1, CallPushes
<1>3. StackOK' /\ CallersOK' /\ FramesOK'
  BY <1>1, <1>2, PushControl
<1>4. FlagsOK' /\ OwnKeys'
  <2>1. Frame(op, block, m) \in FrameType
    BY <1>2 DEF Frame, FrameType, Stages, NoKey
  <2>2. QED
    BY <1>1, <1>2, <2>1, PushFlags DEF guard
<1>5. HeapOK'
  BY <1>1, <1>2, PushHeap
<1>6. BufferOK' /\ (~raced' => BufferOrder')
  BY <1>1, <1>2, PushBuffer DEF EntryInv, startup
<1>7. TypeOK'
  BY <1>1, <1>2, <1>3, AfterTypes DEF TypeOK, guard, startup
<1>8. QED
  BY <1>3, <1>4, <1>5, <1>6, <1>7 DEF EntryInv, Control, OwnBlocksAccepted

-----------------------------------------------------------------------------
(* Every step preserves EntryInv *)

LEMMA TopFrame ==
    ASSUME EntryInv, NEW t \in Threads, Depth(t) > 0
    PROVE  FrameOK(Top(t), User(t, Depth(t))) /\ Top(t) \in FrameType
BY TopFacts DEF EntryInv, Control, FramesOK

\* The stage alone changes, outside the runtime.
LEMMA OtherStageKeeps ==
    ASSUME EntryInv, NEW t \in Threads, Depth(t) > 0, NEW stage, Stage(t, stage),
           stage \in {"dlsym", "set", "bootstrap", "guard"},
           Top(t).stage \in {"entry", "dlsym", "set"},
           stage = "bootstrap" => Top(t).op # "free",
           stage # "bootstrap" /\ Top(t).op \in Releases => Top(t).block.at \in HeapAddr,
           UNCHANGED <<index, raced, guard, mutex, table, heap, blocks, process>>,
           real' \subseteq ToSet(RealFunctions), initializing' \in [Ops -> BOOLEAN]
    PROVE  EntryInv'
<1>1. PICK f : f = [Top(t) EXCEPT !.stage = stage]
  OBVIOUS
<1>2. /\ f \in FrameType /\ f.stage = stage /\ f.op = Top(t).op /\ f.block = Top(t).block
      /\ f.size = Top(t).size /\ f.at = Top(t).at
  BY <1>1, TopFrame DEF FrameType, Stages
<1>3. f.at = Null /\ Null \notin HeapAddr
  BY <1>2, TopFrame, EntryAssumption DEF FrameOK, Null
<1>4. FrameOK(f, User(t, Depth(t)))
  BY <1>2, <1>3, TopFrame DEF FrameOK, InRuntime
<1>5. Goto(t, f)
  BY <1>1 DEF Stage
<1>6. QED
  BY <1>2, <1>3, <1>4, <1>5, StageKeeps

LEMMA EnterKeeps ==
    ASSUME EntryInv, NEW t \in Threads, Enter(t)
    PROVE  EntryInv'
<1>1. Depth(t) > 0 /\ Top(t).stage = "entry" /\ TypeOK
  BY DEF Enter, At, EntryInv
<1>2. FrameOK(Top(t), User(t, Depth(t))) /\ Top(t) \in FrameType
  BY <1>1, TopFrame
<1>3. UNCHANGED <<real, index, raced, guard, mutex, table, heap, process>>
  BY DEF Enter, tables
<1>4. real' \subseteq ToSet(RealFunctions) /\ initializing \in [Ops -> BOOLEAN]
  BY <1>1, <1>3 DEF TypeOK
<1>5. ~Ignored(Top(t)) /\ ~Exchanged(Top(t)) /\ Top(t).op \in Releases => Top(t).block.at \in HeapAddr
  <2>1. Top(t).op \in Releases => Top(t).block \in Block
    BY <1>2 DEF FrameOK
  <2>2. QED
    BY <2>1 DEF Ignored, Exchanged, Releases, Block, is_bootstrap_ptr
<1>6. CASE Return(t, Null) /\ UNCHANGED initializing
  BY <1>1, <1>3, <1>6, GiveUpKeeps DEF startup
<1>7. CASE /\ Stage(t, "bootstrap") /\ Top(t).op # "free"
           /\ UNCHANGED <<initializing, blocks>>
  BY <1>1, <1>3, <1>4, <1>7, OtherStageKeeps
<1>8. CASE /\ ~Ignored(Top(t)) /\ ~Exchanged(Top(t)) /\ Stage(t, "dlsym")
           /\ initializing' = [initializing EXCEPT ![Top(t).op] = TRUE] /\ UNCHANGED blocks
  <2>1. initializing' \in [Ops -> BOOLEAN]
    BY <1>4, <1>8
  <2>2. QED
    BY <1>1, <1>3, <1>4, <1>5, <1>8, <2>1, OtherStageKeeps
<1>9. CASE /\ ~Ignored(Top(t)) /\ ~Exchanged(Top(t)) /\ Stage(t, "guard")
           /\ UNCHANGED <<initializing, blocks>>
  BY <1>1, <1>3, <1>4, <1>5, <1>9, OtherStageKeeps
<1>10. QED
  BY <1>6, <1>7, <1>8, <1>9 DEF Enter, Exchanged

LEMMA BootstrapKeeps ==
    ASSUME EntryInv, NEW t \in Threads, bootstrap_malloc(t)
    PROVE  EntryInv'
<1>1. Depth(t) > 0 /\ Top(t).stage = "bootstrap" /\ TypeOK
  BY DEF bootstrap_malloc, At, EntryInv
<1>2. FrameOK(Top(t), User(t, Depth(t))) /\ Top(t) \in FrameType
  BY <1>1, TopFrame
<1>3. UNCHANGED <<startup, guard, mutex, table, heap, process>>
  BY DEF bootstrap_malloc, tables
<1>4. real' \subseteq ToSet(RealFunctions) /\ initializing' \in [Ops -> BOOLEAN]
  BY <1>1, <1>3 DEF TypeOK, startup
<1>5. CASE Return(t, Null)
  BY <1>1, <1>3, <1>5, GiveUpKeeps
<1>6. CASE /\ Fits(AlignUp(index), Top(t).size) /\ UNCHANGED blocks
           /\ Goto(t, [Top(t) EXCEPT !.stage = "bump", !.at = AlignUp(index)])
  <2>1. PICK f : f = [Top(t) EXCEPT !.stage = "bump", !.at = AlignUp(index)]
    OBVIOUS
  <2>2. index \in Nat /\ BufferSize \in Nat /\ Sizes \subseteq Nat \ {0}
    BY <1>1, EntryAssumption DEF TypeOK
  <2>3. AlignUp(index) \in Nat /\ AlignUp(index) >= index /\ AlignUp(index) % Align = 0
    BY <2>2, Alignment
  <2>4. Top(t).op # "free" /\ Top(t).size \in Nat \ {0}
    BY <1>1, <1>2, <2>2 DEF FrameOK
  <2>5. Placed(AlignUp(index), Top(t).size) /\ AlignUp(index) \in BufferAddr
    BY <1>6, <2>2, <2>3, <2>4 DEF Fits, Placed, BufferAddr
  <2>6. /\ f \in FrameType /\ f.stage = "bump" /\ f.op = Top(t).op /\ f.block = Top(t).block
        /\ f.size = Top(t).size /\ f.at = AlignUp(index)
    BY <1>2, <2>1, <2>5 DEF FrameType, Stages
  <2>7. FrameOK(f, User(t, Depth(t)))
    BY <1>1, <1>2, <2>4, <2>5, <2>6 DEF FrameOK, InRuntime
  <2>8. f.at \notin HeapAddr
    BY <2>5, <2>6, EntryAssumption DEF BufferAddr
  <2>9. Goto(t, f)
    BY <1>6, <2>1
  <2>10. QED
    BY <1>1, <1>3, <1>4, <1>6, <2>3, <2>6, <2>7, <2>8, <2>9, StageKeeps DEF startup
<1>7. QED
  BY <1>5, <1>6 DEF bootstrap_malloc

LEMMA BumpKeeps ==
    ASSUME EntryInv, NEW t \in Threads, bootstrap_bump(t)
    PROVE  EntryInv'
<1>1. /\ Depth(t) > 0 /\ Top(t).stage = "bump" /\ At(t, "bump")
      /\ Control /\ HeapOK /\ BufferOK /\ TypeOK
  BY DEF bootstrap_bump, At, EntryInv
<1>2. FrameOK(Top(t), User(t, Depth(t))) /\ Top(t) \in FrameType
  BY <1>1, TopFrame
<1>3. UNCHANGED <<real, initializing, guard, mutex, table, heap, process>> /\ Return(t, Top(t).at)
  BY DEF bootstrap_bump, tables
<1>4. Top(t).at \in BufferAddr /\ Top(t).size \in Sizes
  BY <1>1, <1>2 DEF FrameOK
<1>5. PICK n : n = [at |-> Top(t).at, size |-> Top(t).size, user |-> UserIn(t, Depth(t) - 1)]
  OBVIOUS
<1>6. blocks' = blocks \cup {n}
  BY <1>3, <1>4, <1>5 DEF Return, BufferAddr, Null
<1>7. n \in Block /\ n.at \notin HeapAddr
  BY <1>4, <1>5, CallersKind, EntryAssumption DEF Block, BufferAddr
<1>8. StackOK' /\ CallersOK' /\ FramesOK' /\ FlagsOK' /\ OwnKeys'
  BY <1>1, <1>3, ReturnControl, ReturnFlags DEF guard, InRuntime, TypeOK
<1>9. HeapOK'
  <2>1. PICK N : N = {n}
    OBVIOUS
  <2>2. /\ blocks' = blocks \cup N /\ table' \subseteq heap' /\ heap' = heap /\ table' = table
        /\ \A b, c \in N : b = c
        /\ \A b \in N : b.at \notin HeapAddr
    BY <1>1, <1>3, <1>6, <1>7, <2>1 DEF HeapOK
  <2>3. QED
    BY <1>1, <1>3, <2>2, ReturnHeap
<1>10. BufferOK' /\ index' \in 0 .. BufferSize /\ (~raced' => BufferOrder')
  <2>1. /\ index' = n.at + n.size /\ n.at = Top(t).at /\ n.size = Top(t).size
        /\ ~raced' => ~raced /\ \A u \in Threads \ {t} : ~At(u, "bump")
    BY <1>5 DEF bootstrap_bump
  <2>2. index \in Nat /\ blocks \subseteq Block
    BY <1>1 DEF TypeOK
  <2>3. ~raced' => BufferOrder
    BY <2>1 DEF EntryInv
  <2>4. QED
    BY <1>1, <1>3, <1>6, <2>1, <2>2, <2>3, BumpBuffer
<1>11. TypeOK'
  BY <1>1, <1>3, <1>6, <1>7, <1>8, <1>10, AfterTypes DEF TypeOK, guard
<1>12. QED
  BY <1>3, <1>8, <1>9, <1>10, <1>11 DEF EntryInv, Control, OwnBlocksAccepted

LEMMA InitRealKeeps ==
    ASSUME EntryInv, NEW t \in Threads, init_real_functions(t)
    PROVE  EntryInv'
<1>1. Depth(t) > 0 /\ Top(t).stage \in {"dlsym", "set"} /\ TypeOK
  BY DEF init_real_functions, At, EntryInv
<1>2. FrameOK(Top(t), User(t, Depth(t))) /\ Top(t) \in FrameType
  BY <1>1, TopFrame
<1>3. UNCHANGED <<index, raced, guard, mutex, table, heap, blocks, process>>
  BY DEF init_real_functions, tables
<1>4. real \subseteq ToSet(RealFunctions) /\ initializing \in [Ops -> BOOLEAN]
  BY <1>1 DEF TypeOK
<1>5. Top(t).op \in Releases => Top(t).block.at \in HeapAddr
  BY <1>1, <1>2 DEF FrameOK
<1>6. CASE /\ \E i \in DOMAIN RealFunctions : real' = real \cup {RealFunctions[i]}
           /\ Stage(t, "set") /\ UNCHANGED initializing
  <2>1. real' \subseteq ToSet(RealFunctions)
    BY <1>4, <1>6 DEF ToSet
  <2>2. QED
    BY <1>1, <1>3, <1>4, <1>5, <1>6, <2>1, OtherStageKeeps
<1>7. CASE /\ initializing' = [initializing EXCEPT ![Top(t).op] = FALSE]
           /\ Stage(t, "guard") /\ UNCHANGED real
  <2>1. initializing' \in [Ops -> BOOLEAN]
    BY <1>4, <1>7
  <2>2. QED
    BY <1>1, <1>3, <1>4, <1>5, <1>7, <2>1, OtherStageKeeps
<1>8. QED
  BY <1>6, <1>7 DEF init_real_functions

\* t gets past the guard: its flag is set, under the key that is in TLS_KEY then.
LEMMA EntersRuntime ==
    ASSUME EntryInv, NEW t \in Threads, Depth(t) > 0, Top(t).stage \in {"guard", "key"},
           User(t, Depth(t)) # "runtime", NEW f \in FrameType, Goto(t, f),
           f.stage = FirstStage(f.op), f.op = Top(t).op, f.block = Top(t).block,
           f.size = Top(t).size, f.at = Top(t).at,
           tls_key' # NoKey, tls_key # NoKey => tls_key' = tls_key,
           specific' = [specific EXCEPT ![t] = @ \cup {tls_key'}],
           IsFiniteSet(keys'), keys' \subseteq Nat \ {NoKey}, tls_key' \in keys', OwnKeys',
           UNCHANGED <<startup, mutex, table, heap, blocks, process>>
    PROVE  EntryInv'
<1>1. Control /\ HeapOK /\ BufferOK /\ TypeOK /\ specific \in [Threads -> SUBSET Nat]
  BY DEF EntryInv, TypeOK
<1>2. FrameOK(Top(t), User(t, Depth(t))) /\ Top(t) \in FrameType
  BY TopFrame
<1>3. f.stage = IF f.op \in Releases THEN "lock" ELSE "allocate"
  BY DEF FirstStage, FrameType, Ops, Releases
<1>4. FrameOK(f, User(t, Depth(t)))
  BY <1>2, <1>3 DEF FrameOK, InRuntime
<1>5. StackOK' /\ CallersOK' /\ FramesOK'
  BY <1>1, <1>4, GotoControl
<1>6. FlagsOK'
  <2>1. f.stage \in InRuntime /\ Top(t).stage \notin InRuntime
    BY <1>3 DEF InRuntime
  <2>2. QED
    BY <1>1, <2>1, EnterFlags
<1>7. HeapOK'
  <2>1. Carried(f) = Carried(Top(t)) /\ \A a : Tracked(f, a) <=> Tracked(Top(t), a)
    BY <1>3 DEF Carried, Tracked
  <2>2. \A a \in Carried(f) : /\ a \in Carried(Top(t)) \/ a \notin heap
                              /\ a \in heap' /\ (a \in table' <=> Tracked(f, a))
    BY <1>1, <2>1, TopCarries
  <2>3. table' \subseteq heap'
    BY <1>1 DEF HeapOK
  <2>4. QED
    BY <1>1, <2>2, <2>3, GotoHeap
<1>8. BufferOK' /\ (~raced' => BufferOrder')
  BY <1>1, <1>3, GotoBuffer DEF EntryInv, startup
<1>9. TypeOK'
  <2>1. specific' \in [Threads -> SUBSET Nat]
    BY <1>1
  <2>2. QED
    BY <1>1, <1>5, <2>1, AfterTypes DEF TypeOK, startup
<1>10. QED
  BY <1>5, <1>6, <1>7, <1>8, <1>9 DEF EntryInv, Control, OwnBlocksAccepted

LEMMA NewKey ==
    ASSUME NEW S, IsFiniteSet(S)
    PROVE  \E k \in 1 .. Cardinality(S) + 1 : k \notin S
<1>1. PICK n \in Nat : n = Cardinality(S)
  BY FS_CardinalityType
<1>2. SUFFICES ASSUME 1 .. n + 1 \subseteq S PROVE FALSE
  BY <1>1
<1>3. Cardinality(1 .. n + 1) <= n
  BY <1>1, <1>2, FS_Subset
<1>4. Cardinality(1 .. n + 1) = n + 1
  BY FS_Interval
<1>5. QED
  BY <1>3, <1>4

LEMMA GuardKeeps ==
    ASSUME EntryInv, NEW t \in Threads, Guard(t)
    PROVE  EntryInv'
<1>1. /\ Depth(t) > 0 /\ Top(t).stage = "guard"
      /\ Control /\ HeapOK /\ BufferOK /\ TypeOK
  BY DEF Guard, At, EntryInv
<1>2. FrameOK(Top(t), User(t, Depth(t))) /\ Top(t) \in FrameType
  BY <1>1, TopFrame
<1>3. User(t, Depth(t)) # "runtime"
  BY <1>1, UserIsRuntime DEF Guard, Recursed, InRuntime
<1>4. /\ UNCHANGED <<startup, tls_key, mutex, table, heap, blocks, process>>
      /\ IsFiniteSet(keys) /\ keys \subseteq Nat \ {NoKey} /\ tls_key \in keys \cup {NoKey}
  BY <1>1 DEF Guard, tables, Control, FlagsOK, TypeOK
<1>5. CASE /\ tls_key # NoKey /\ specific' = [specific EXCEPT ![t] = @ \cup {tls_key}]
           /\ Stage(t, FirstStage(Top(t).op)) /\ UNCHANGED keys
  <2>1. PICK f : f = [Top(t) EXCEPT !.stage = FirstStage(Top(t).op)]
    OBVIOUS
  <2>2. /\ f \in FrameType /\ f.stage = FirstStage(f.op) /\ f.op = Top(t).op
        /\ f.block = Top(t).block /\ f.size = Top(t).size /\ f.at = Top(t).at /\ f.stage # "key"
    BY <1>2, <2>1 DEF FrameType, Stages, FirstStage
  <2>3. Goto(t, f)
    BY <1>5, <2>1 DEF Stage
  <2>4. OwnKeys'
    BY <1>1, <1>4, <1>5, <2>2, <2>3, GotoOwnKeys
  <2>5. QED
    BY <1>1, <1>3, <1>4, <1>5, <2>2, <2>3, <2>4, EntersRuntime
<1>6. CASE /\ tls_key = NoKey /\ UNCHANGED specific
           /\ LET key == CHOOSE k \in 1 .. Cardinality(keys) + 1 : k \notin keys
              IN  /\ keys' = keys \cup {key}
                  /\ Goto(t, [Top(t) EXCEPT !.stage = "key", !.key = key])
  <2>1. PICK key : /\ key \in 1 .. Cardinality(keys) + 1 /\ key \notin keys
                   /\ keys' = keys \cup {key}
                   /\ Goto(t, [Top(t) EXCEPT !.stage = "key", !.key = key])
    <3>1. PICK k : k = CHOOSE j \in 1 .. Cardinality(keys) + 1 : j \notin keys
      OBVIOUS
    <3>2. \E j \in 1 .. Cardinality(keys) + 1 : j \notin keys
      BY <1>4, NewKey
    <3>3. k \in 1 .. Cardinality(keys) + 1 /\ k \notin keys
      BY <3>1, <3>2
    <3>4. /\ keys' = keys \cup {k}
          /\ Goto(t, [Top(t) EXCEPT !.stage = "key", !.key = k])
      BY <1>6, <3>1
    <3>5. QED
      BY <3>3, <3>4, Zenon
  <2>2. key \in Nat \ {NoKey}
    BY <1>4, <2>1, FS_CardinalityType DEF NoKey
  <2>3. PICK f : f = [Top(t) EXCEPT !.stage = "key", !.key = key]
    OBVIOUS
  <2>4. /\ f \in FrameType /\ f.stage = "key" /\ f.op = Top(t).op /\ f.key = key
        /\ f.block = Top(t).block /\ f.size = Top(t).size /\ f.at = Top(t).at
    BY <1>2, <2>2, <2>3 DEF FrameType, Stages
  <2>5. FrameOK(f, User(t, Depth(t))) /\ Goto(t, f)
    BY <1>1, <1>2, <1>3, <2>1, <2>3, <2>4 DEF FrameOK, InRuntime
  <2>6. StackOK' /\ CallersOK' /\ FramesOK'
    BY <1>1, <2>4, <2>5, GotoControl
  <2>7. IsFiniteSet(keys')
    BY <1>4, <2>1, FS_AddElement
  <2>8. FlagsOK'
    BY <1>1, <1>4, <1>6, <2>4, <2>5, <2>7, GotoFlags DEF InRuntime
  <2>9. OwnKeys'
    <3>1. \A u \in Threads : \A i \in 1 .. Depth(u)' :
             \/ i \in 1 .. Depth(u) /\ stack'[u][i] = stack[u][i]
             \/ u = t /\ i = Depth(t) /\ stack'[u][i] = f
      BY <1>1, <2>4, <2>5, AfterGoto DEF Control
    <3>2. \A u \in Threads : \A i \in 1 .. Depth(u) : stack[u][i].stage = "key" =>
             stack[u][i].key \in keys /\ stack[u][i].key \notin {tls_key, key}
      BY <1>1, <2>1 DEF Control, OwnKeys
    <3>3. key \in keys' \ {tls_key'}
      BY <1>4, <1>6, <2>1, <2>2
    <3>4. ASSUME NEW u \in Threads, NEW i \in 1 .. Depth(u)', stack'[u][i].stage = "key",
                 NEW v \in Threads, NEW j \in 1 .. Depth(v)'
          PROVE  /\ stack'[u][i].key \in keys' \ {tls_key'}
                 /\ stack'[v][j].stage = "key" /\ <<u, i>> # <<v, j>> =>
                       stack'[v][j].key # stack'[u][i].key
      <4>1. CASE i \in 1 .. Depth(u) /\ stack'[u][i] = stack[u][i]
        <5>1. stack[u][i].key \in keys /\ stack[u][i].key \notin {tls_key, key}
          BY <3>2, <3>4, <4>1
        <5>2. CASE j \in 1 .. Depth(v) /\ stack'[v][j] = stack[v][j]
          BY <1>1, <1>4, <2>1, <3>4, <4>1, <5>1, <5>2 DEF Control, OwnKeys
        <5>3. CASE stack'[v][j] = f
          BY <1>4, <2>1, <2>4, <4>1, <5>1, <5>3
        <5>4. QED
          BY <3>1, <5>2, <5>3
      <4>2. CASE u = t /\ i = Depth(t) /\ stack'[u][i] = f
        <5>1. CASE j \in 1 .. Depth(v) /\ stack'[v][j] = stack[v][j]
          BY <2>4, <3>2, <3>3, <4>2, <5>1
        <5>2. CASE v = t /\ j = Depth(t) /\ stack'[v][j] = f
          BY <2>4, <3>3, <4>2, <5>2
        <5>3. QED
          BY <3>1, <5>1, <5>2
      <4>3. QED
        BY <3>1, <4>1, <4>2
    <3>5. QED
      BY <3>4 DEF OwnKeys
  <2>10. HeapOK'
    <3>1. Carried(f) = Carried(Top(t)) /\ \A a : Tracked(f, a) <=> Tracked(Top(t), a)
      BY <1>1, <2>4 DEF Carried, Tracked
    <3>2. \A a \in Carried(f) : /\ a \in Carried(Top(t)) \/ a \notin heap
                                /\ a \in heap' /\ (a \in table' <=> Tracked(f, a))
      BY <1>1, <1>4, <3>1, TopCarries
    <3>3. table' \subseteq heap'
      BY <1>1, <1>4 DEF HeapOK
    <3>4. QED
      BY <1>1, <1>4, <2>4, <2>5, <3>2, <3>3, GotoHeap
  <2>11. BufferOK' /\ (~raced' => BufferOrder')
    BY <1>1, <1>4, <2>4, <2>5, GotoBuffer DEF EntryInv, startup
  <2>12. TypeOK'
    <3>1. keys' \subseteq Nat \ {NoKey} /\ tls_key' \in keys' \cup {NoKey}
      BY <1>4, <2>1, <2>2
    <3>2. QED
      BY <1>1, <1>4, <1>6, <2>6, <3>1, AfterTypes DEF TypeOK, startup
  <2>13. QED
    BY <1>4, <2>6, <2>8, <2>9, <2>10, <2>11, <2>12 DEF EntryInv, Control, OwnBlocksAccepted
<1>7. QED
  BY <1>5, <1>6 DEF Guard

LEMMA SetKeeps ==
    ASSUME EntryInv, NEW t \in Threads, set_in_runtime(t)
    PROVE  EntryInv'
<1>1. Depth(t) > 0 /\ Top(t).stage = "key" /\ Control /\ TypeOK
  BY DEF set_in_runtime, At, EntryInv
<1>2. FrameOK(Top(t), User(t, Depth(t))) /\ Top(t) \in FrameType
  BY <1>1, TopFrame
<1>3. /\ UNCHANGED <<startup, mutex, table, heap, blocks, process>>
      /\ IsFiniteSet(keys) /\ keys \subseteq Nat \ {NoKey} /\ tls_key \in keys \cup {NoKey}
  BY <1>1 DEF set_in_runtime, tables, Control, FlagsOK, TypeOK
<1>4. PICK key : key = Top(t).key
  OBVIOUS
<1>5. /\ tls_key' = IF tls_key = NoKey THEN key ELSE tls_key
      /\ keys' = IF tls_key = NoKey THEN keys ELSE keys \ {key}
      /\ specific' = [specific EXCEPT ![t] = @ \cup {tls_key'}]
      /\ Goto(t, [Top(t) EXCEPT !.stage = FirstStage(Top(t).op), !.key = NoKey])
  BY <1>4 DEF set_in_runtime, KeyUsed
<1>6. key \in keys \ {tls_key} /\ User(t, Depth(t)) # "runtime"
  BY <1>1, <1>2, <1>4, TopFacts DEF Control, OwnKeys, FrameOK
<1>7. PICK f : f = [Top(t) EXCEPT !.stage = FirstStage(Top(t).op), !.key = NoKey]
  OBVIOUS
<1>8. /\ f \in FrameType /\ f.stage = FirstStage(f.op) /\ f.op = Top(t).op
      /\ f.block = Top(t).block /\ f.size = Top(t).size /\ f.at = Top(t).at /\ f.stage # "key"
  BY <1>2, <1>7 DEF FrameType, Stages, FirstStage, NoKey
<1>9. Goto(t, f)
  BY <1>5, <1>7
<1>10. IsFiniteSet(keys') /\ keys' \subseteq Nat \ {NoKey} /\ tls_key' \in keys' /\ tls_key' # NoKey
  BY <1>3, <1>5, <1>6, FS_RemoveElement
<1>11. OwnKeys'
  <2>1. \A u \in Threads : \A i \in 1 .. Depth(u)' : stack'[u][i].stage = "key" =>
           /\ i \in 1 .. Depth(u) /\ stack'[u][i] = stack[u][i]
           /\ stack[u][i].key \in keys \ {tls_key} /\ stack[u][i].key # key
    <3>1. \A u \in Threads : \A i \in 1 .. Depth(u)' : stack'[u][i].stage = "key" =>
             /\ i \in 1 .. Depth(u) /\ stack'[u][i] = stack[u][i]
             /\ u # t \/ i # Depth(t)
      BY <1>1, <1>8, <1>9, AfterGoto DEF Control
    <3>2. ASSUME NEW u \in Threads, NEW i \in 1 .. Depth(u), stack[u][i].stage = "key",
                 u # t \/ i # Depth(t)
          PROVE  stack[u][i].key \in keys \ {tls_key} /\ stack[u][i].key # key
      <4>1. Depth(t) \in 1 .. Depth(t) /\ stack[t][Depth(t)].stage = "key"
            /\ stack[t][Depth(t)].key = key
        BY <1>1, <1>4, TopFacts DEF Control
      <4>2. QED
        BY <1>1, <3>2, <4>1 DEF Control, OwnKeys
    <3>3. QED
      BY <3>1, <3>2
  <2>2. \A u \in Threads : \A i \in 1 .. Depth(u)' : stack'[u][i].stage = "key" =>
           stack'[u][i].key \in keys' \ {tls_key'}
    BY <1>5, <2>1
  <2>3. \A u, v \in Threads : \A i \in 1 .. Depth(u), j \in 1 .. Depth(v) :
           stack[u][i].stage = "key" /\ stack[v][j].stage = "key" /\ <<u, i>> # <<v, j>> =>
              stack[v][j].key # stack[u][i].key
    BY <1>1 DEF Control, OwnKeys
  <2>4. QED
    BY <2>1, <2>2, <2>3 DEF OwnKeys
<1>12. QED
  BY <1>1, <1>3, <1>5, <1>6, <1>8, <1>9, <1>10, <1>11, EntersRuntime

\* What the real allocator returns, and what it then has.
LEMMA Results ==
    ASSUME NEW f \in FrameType, NEW r \in RealResults(f), heap \subseteq HeapAddr,
           f.op \in Releases => f.block.at \in HeapAddr
    PROVE  /\ r[2] \subseteq HeapAddr
           /\ f.op \notin Releases =>
                 \/ r[1] = Null /\ r[2] = heap
                 \/ r[1] \in HeapAddr \ heap /\ r[2] = heap \cup {r[1]}
           /\ f.op = "free" => r[1] = Null /\ r[2] = heap \ {f.block.at}
           /\ f.op = "realloc" =>
                 \/ r[1] = Null /\ r[2] = heap
                 \/ /\ r[1] \in (HeapAddr \ heap) \cup {f.block.at}
                    /\ r[2] = (heap \ {f.block.at}) \cup {r[1]}
<1>1. FreeAddr \subseteq HeapAddr \ heap
  BY DEF FreeAddr
<1>2. CASE f.op \notin Releases
  <2>1. f.op \in {"malloc", "aligned_alloc"}
    BY <1>2 DEF FrameType, Ops, Releases
  <2>2. \/ r = <<Null, heap>>
        \/ \E a \in FreeAddr : r = <<a, heap \cup {a}>>
    BY <2>1 DEF RealResults
  <2>3. QED
    BY <1>1, <1>2, <2>2 DEF Releases
<1>3. CASE f.op = "free"
  <2>1. r = <<Null, heap \ {f.block.at}>>
    BY <1>3 DEF RealResults
  <2>2. QED
    BY <1>3, <2>1 DEF Releases
<1>4. CASE f.op = "realloc"
  <2>1. \/ r = <<Null, heap>>
        \/ \E a \in FreeAddr \cup {f.block.at} : r = <<a, (heap \ {f.block.at}) \cup {a}>>
    BY <1>4 DEF RealResults
  <2>2. QED
    BY <1>1, <1>4, <2>1 DEF Releases
<1>5. QED
  BY <1>2, <1>3, <1>4 DEF Releases

\* What a call of user that comes to an end with r leaves its caller.
Left(f, r, user) ==
    IF r # Null THEN {[at |-> r, size |-> f.size, user |-> user]}
    ELSE IF f.op = "realloc" THEN {f.block} ELSE {}

LEMMA LeftFacts ==
    ASSUME NEW t \in Threads, NEW r, Return(t, r), NEW f, f = Top(t),
           NEW N, N = Left(f, r, User(t, Depth(t)))
    PROVE  /\ blocks' = blocks \cup N
           /\ \A b, c \in N : b = c
           /\ r # Null =>
                 /\ \E b \in N : b.at = r
                 /\ \A b \in N : /\ b = [at |-> r, size |-> f.size, user |-> User(t, Depth(t))]
                                 /\ b.at = r /\ b.user = User(t, Depth(t))
           /\ r = Null /\ f.op = "realloc" => N = {f.block}
           /\ r = Null /\ f.op # "realloc" => N = {}
<1>1. blocks' = blocks \cup N
  BY DEF Return, User, Left
<1>2. CASE r # Null
  <2>1. PICK n : n = [at |-> r, size |-> f.size, user |-> User(t, Depth(t))]
    OBVIOUS
  <2>2. N = {n} /\ n.at = r /\ n.user = User(t, Depth(t))
    BY <1>2, <2>1 DEF Left
  <2>3. QED
    BY <1>1, <1>2, <2>1, <2>2
<1>3. CASE r = Null
  BY <1>1, <1>3 DEF Left
<1>4. QED
  BY <1>2, <1>3

LEMMA PassThroughKeeps ==
    ASSUME EntryInv, NEW t \in Threads, PassThrough(t)
    PROVE  EntryInv'
<1>1. /\ Depth(t) > 0 /\ Top(t).stage = "guard"
      /\ Control /\ HeapOK /\ BufferOK /\ TypeOK /\ process = "up"
  BY DEF PassThrough, At, EntryInv, OwnBlocksAccepted
<1>2. PICK f : f = Top(t)
  OBVIOUS
<1>3. FrameOK(f, User(t, Depth(t))) /\ f \in FrameType /\ f.at = Null
  BY <1>1, <1>2, TopFrame DEF FrameOK
<1>4. User(t, Depth(t)) = "runtime"
  BY <1>1, UserIsRuntime DEF PassThrough, Recursed, InRuntime
<1>5. UNCHANGED <<startup, guard, mutex, table>>
  BY DEF PassThrough
<1>6. PICK r \in RealResults(f) : heap' = r[2] /\ Return(t, r[1])
  BY <1>2 DEF PassThrough
<1>7. f.op \in Releases => f.block \in Block /\ f.block.at \in HeapAddr /\ f.block.user = "runtime"
  BY <1>1, <1>2, <1>3, <1>4 DEF FrameOK
<1>8. f.op \in Releases => f.block.at \in heap /\ f.block.at \notin table
  <2>1. f.op \in Releases => f.block.at \in Carried(Top(t))
    BY <1>1, <1>2, <1>7 DEF Carried
  <2>2. QED
    BY <1>1, <1>2, <1>7, <2>1, TopCarries DEF Tracked
<1>9. /\ heap' \subseteq HeapAddr
      /\ f.op \notin Releases =>
            \/ r[1] = Null /\ heap' = heap
            \/ r[1] \in HeapAddr \ heap /\ heap' = heap \cup {r[1]}
      /\ f.op = "free" => r[1] = Null /\ heap' = heap \ {f.block.at}
      /\ f.op = "realloc" =>
            \/ r[1] = Null /\ heap' = heap
            \/ /\ r[1] \in (HeapAddr \ heap) \cup {f.block.at}
               /\ heap' = (heap \ {f.block.at}) \cup {r[1]}
  BY <1>1, <1>3, <1>6, <1>7, Results DEF TypeOK
<1>10. process' = "up"
  BY <1>1, <1>2, <1>8 DEF PassThrough, Foreign, Releases
<1>11. PICK N : N = Left(f, r[1], User(t, Depth(t)))
  OBVIOUS
<1>12. /\ blocks' = blocks \cup N
       /\ \A b, c \in N : b = c
       /\ r[1] # Null =>
             /\ \E b \in N : b.at = r[1]
             /\ \A b \in N : /\ b = [at |-> r[1], size |-> f.size, user |-> "runtime"]
                             /\ b.at = r[1] /\ b.user = "runtime"
       /\ r[1] = Null /\ f.op = "realloc" => N = {f.block}
       /\ r[1] = Null /\ f.op # "realloc" => N = {}
  BY <1>2, <1>4, <1>6, <1>11, LeftFacts
<1>13. Null \notin HeapAddr
  BY EntryAssumption DEF Null
<1>14. \A b \in N : b \in Block /\ b.at \in HeapAddr /\ b.user = "runtime"
  <2>1. CASE r[1] # Null
    <3>1. f.op # "free"
      BY <1>9, <2>1
    <3>2. f.size \in Sizes /\ r[1] \in HeapAddr
      BY <1>3, <1>7, <1>9, <2>1, <3>1 DEF FrameOK, Releases
    <3>3. QED
      BY <1>12, <2>1, <3>2 DEF Block
  <2>2. CASE r[1] = Null
    BY <1>7, <1>12, <2>2 DEF Releases
  <2>3. QED
    BY <2>1, <2>2
<1>15. StackOK' /\ CallersOK' /\ FramesOK' /\ FlagsOK' /\ OwnKeys'
  <2>1. specific \in [Threads -> SUBSET Nat] /\ UNCHANGED <<tls_key, keys, specific>>
    BY <1>1, <1>5 DEF TypeOK, guard
  <2>2. QED
    BY <1>1, <1>6, <2>1, ReturnControl, ReturnFlags DEF InRuntime
<1>16. HeapOK'
  <2>1. Carried(Top(t)) = IF f.op \in Releases THEN {f.block.at} ELSE {}
    <3>1. f.op \notin Releases => f.block.at = Null
      BY <1>3 DEF FrameOK, FrameType, NoBlock
    <3>2. QED
      BY <1>1, <1>2, <1>3, <1>7, <1>13, <3>1 DEF Carried
  <2>2. table' \subseteq heap'
    BY <1>1, <1>3, <1>5, <1>8, <1>9 DEF HeapOK, FrameType, Ops, Releases
  <2>3. \A b \in N : /\ b.at \in Carried(Top(t)) \/ b.at \notin heap
                     /\ b.at \in heap' /\ b.at \notin table'
    <3>1. CASE r[1] = Null
      BY <1>5, <1>7, <1>8, <1>9, <1>12, <1>13, <2>1, <3>1 DEF Releases
    <3>2. CASE r[1] # Null
      <4>1. \A b \in N : b.at = r[1]
        BY <1>12, <3>2
      <4>2. /\ r[1] \in Carried(Top(t)) \/ r[1] \notin heap
            /\ r[1] \in heap' /\ r[1] \notin table
        BY <1>1, <1>3, <1>8, <1>9, <2>1, <3>2 DEF HeapOK, FrameType, Ops, Releases
      <4>3. QED
        BY <1>5, <4>1, <4>2
    <3>3. QED
      BY <3>1, <3>2
  <2>4. \A a \in HeapAddr \ Carried(Top(t)) : (\A b \in N : b.at # a) =>
           (a \in heap' <=> a \in heap) /\ (a \in table' <=> a \in table)
    <3>1. CASE r[1] = Null
      BY <1>5, <1>7, <1>9, <1>13, <2>1, <3>1 DEF Releases
    <3>2. CASE r[1] # Null
      <4>1. \E b \in N : b.at = r[1]
        BY <1>12, <3>2
      <4>2. QED
        BY <1>5, <1>9, <2>1, <3>2, <4>1 DEF Releases
    <3>3. QED
      BY <3>1, <3>2
  <2>5. QED
    BY <1>1, <1>6, <1>12, <1>14, <2>2, <2>3, <2>4, ReturnHeap
<1>17. BufferOK' /\ (~raced' => BufferOrder')
  <2>1. \A b \in N : ~is_bootstrap_ptr(b.at)
    BY <1>14, EntryAssumption DEF is_bootstrap_ptr
  <2>2. QED
    BY <1>1, <1>5, <1>6, <1>12, <2>1, ReturnBuffer DEF EntryInv, startup
<1>18. TypeOK'
  <2>1. blocks' \subseteq Block /\ table' \cup heap' \subseteq HeapAddr
    BY <1>1, <1>5, <1>9, <1>12, <1>14 DEF TypeOK
  <2>2. QED
    BY <1>1, <1>5, <1>15, <2>1, AfterTypes DEF TypeOK, guard, startup
<1>19. QED
  BY <1>10, <1>15, <1>16, <1>17, <1>18 DEF EntryInv, Control, OwnBlocksAccepted

LEMMA AllocateKeeps ==
    ASSUME EntryInv, NEW t \in Threads, Allocate(t)
    PROVE  EntryInv'
<1>1. /\ Depth(t) > 0 /\ Top(t).stage = "allocate"
      /\ Control /\ HeapOK /\ BufferOK /\ TypeOK
  BY DEF Allocate, At, EntryInv
<1>2. PICK f : f = Top(t)
  OBVIOUS
<1>3. FrameOK(f, User(t, Depth(t))) /\ f \in FrameType /\ f.at = Null /\ Null \notin HeapAddr
  BY <1>1, <1>2, TopFrame, EntryAssumption DEF FrameOK, Null
<1>4. f.op \notin Releases /\ f.block = NoBlock /\ f.stage = "allocate"
  BY <1>1, <1>2, <1>3 DEF FrameOK, FrameType
<1>5. UNCHANGED <<startup, tls_key, keys, mutex, table, process>>
  BY DEF Allocate
<1>6. PICK r \in RealResults(f) :
         /\ heap' = r[2]
         /\ \/ r[1] = Null /\ LeaveRuntime(t) /\ Return(t, Null)
            \/ /\ r[1] # Null
               /\ Goto(t, [Top(t) EXCEPT !.stage = "lock", !.at = r[1]])
               /\ UNCHANGED <<specific, blocks>>
  BY <1>2 DEF Allocate
<1>7. /\ heap' \subseteq HeapAddr
      /\ \/ r[1] = Null /\ heap' = heap
         \/ r[1] \in HeapAddr \ heap /\ heap' = heap \cup {r[1]}
  BY <1>1, <1>3, <1>4, <1>6, Results DEF TypeOK
<1>8. Carried(f) = {} /\ f.op # "realloc"
  BY <1>3, <1>4 DEF Carried, NoBlock, Releases
<1>9. specific \in [Threads -> SUBSET Nat]
  BY <1>1 DEF TypeOK
<1>10. CASE r[1] = Null /\ LeaveRuntime(t) /\ Return(t, Null)
  <2>1. PICK N : N = Left(f, Null, User(t, Depth(t)))
    OBVIOUS
  <2>2. blocks' = blocks \cup N /\ N = {} /\ blocks' = blocks
    BY <1>2, <1>8, <1>10, <2>1, LeftFacts
  <2>3. StackOK' /\ CallersOK' /\ FramesOK' /\ FlagsOK' /\ OwnKeys'
    BY <1>1, <1>5, <1>9, <1>10, ReturnControl, ReturnFlags DEF InRuntime
  <2>4. heap' = heap /\ table' = table /\ table' \subseteq heap'
    BY <1>1, <1>3, <1>5, <1>7, <1>10 DEF HeapOK
  <2>5. HeapOK'
    BY <1>1, <1>10, <2>2, <2>4, ReturnHeap
  <2>6. BufferOK' /\ (~raced' => BufferOrder')
    BY <1>1, <1>5, <1>10, <2>2, ReturnBuffer DEF EntryInv, startup
  <2>7. specific' \in [Threads -> SUBSET Nat]
    BY <1>9, <1>10 DEF LeaveRuntime
  <2>8. TypeOK'
    BY <1>1, <1>5, <2>2, <2>3, <2>4, <2>7, AfterTypes DEF TypeOK, startup
  <2>9. QED
    BY <1>5, <2>3, <2>5, <2>6, <2>8 DEF EntryInv, Control, OwnBlocksAccepted
<1>11. CASE /\ r[1] # Null /\ UNCHANGED <<specific, blocks>>
            /\ Goto(t, [Top(t) EXCEPT !.stage = "lock", !.at = r[1]])
  <2>1. PICK a \in HeapAddr \ heap : a = r[1] /\ heap' = heap \cup {a}
    BY <1>7, <1>11
  <2>2. PICK g : g = [f EXCEPT !.stage = "lock", !.at = a]
    OBVIOUS
  <2>3. /\ g \in FrameType /\ g.stage = "lock" /\ g.op = f.op /\ g.block = f.block
        /\ g.size = f.size /\ g.at = a /\ Goto(t, g)
    BY <1>2, <1>3, <1>11, <2>1, <2>2 DEF FrameType, Stages
  <2>4. FrameOK(g, User(t, Depth(t)))
    BY <1>3, <1>4, <2>3 DEF FrameOK, InRuntime
  <2>5. StackOK' /\ CallersOK' /\ FramesOK'
    BY <1>1, <2>3, <2>4, GotoControl
  <2>6. FlagsOK' /\ OwnKeys'
    <3>1. IsFiniteSet(keys') /\ (Top(t).stage \in InRuntime <=> g.stage \in InRuntime)
      BY <1>1, <1>5, <2>3 DEF Control, FlagsOK, InRuntime
    <3>2. QED
      BY <1>1, <1>5, <1>11, <2>3, <3>1, GotoFlags, GotoOwnKeys
  <2>7. HeapOK'
    <3>1. Carried(g) = {a} /\ ~Tracked(g, a)
      BY <1>3, <1>4, <2>1, <2>3 DEF Carried, Tracked, NoBlock
    <3>2. table' \subseteq heap' /\ a \notin table' /\ a \in heap' /\ a \notin heap
      BY <1>1, <1>5, <2>1 DEF HeapOK
    <3>3. \A b \in HeapAddr \ (Carried(g) \cup Carried(Top(t))) :
             (b \in heap' <=> b \in heap) /\ (b \in table' <=> b \in table)
      BY <1>5, <2>1, <3>1
    <3>4. QED
      BY <1>1, <1>11, <2>3, <3>1, <3>2, <3>3, GotoHeap
  <2>8. BufferOK' /\ (~raced' => BufferOrder')
    BY <1>1, <1>2, <1>5, <1>11, <2>3, GotoBuffer DEF EntryInv, startup
  <2>9. TypeOK'
    BY <1>1, <1>5, <1>7, <1>11, <2>5, AfterTypes DEF TypeOK, startup
  <2>10. QED
    BY <1>5, <2>5, <2>6, <2>7, <2>8, <2>9 DEF EntryInv, Control, OwnBlocksAccepted
<1>12. QED
  BY <1>6, <1>10, <1>11

LEMMA LockKeeps ==
    ASSUME EntryInv, NEW t \in Threads, Lock(t)
    PROVE  EntryInv'
<1>1. /\ Depth(t) > 0 /\ Top(t).stage = "lock"
      /\ Control /\ HeapOK /\ BufferOK /\ TypeOK /\ process = "up"
  BY DEF Lock, At, EntryInv, OwnBlocksAccepted
<1>2. PICK f : f = Top(t)
  OBVIOUS
<1>3. FrameOK(f, User(t, Depth(t))) /\ f \in FrameType /\ Null \notin HeapAddr /\ f.stage = "lock"
  BY <1>1, <1>2, TopFrame, EntryAssumption DEF Null
<1>4. UNCHANGED <<startup, guard, blocks>> /\ mutex' = t
  BY DEF Lock
\* The frame with which the section goes on.
<1>5. ASSUME NEW g \in FrameType, Goto(t, g), FrameOK(g, User(t, Depth(t))), g.stage = "insert",
             g.block = f.block, process' = "up", table' \subseteq heap', heap' \subseteq HeapAddr,
             \A a \in Carried(g) : /\ a \in Carried(f) \/ a \notin heap
                                   /\ a \in heap' /\ a \notin table',
             \A a \in HeapAddr \ (Carried(g) \cup Carried(f)) :
                (a \in heap' <=> a \in heap) /\ (a \in table' <=> a \in table)
      PROVE  EntryInv'
  <2>1. StackOK' /\ CallersOK' /\ FramesOK'
    BY <1>1, <1>5, GotoControl
  <2>2. FlagsOK' /\ OwnKeys'
    <3>1. IsFiniteSet(keys') /\ (Top(t).stage \in InRuntime <=> g.stage \in InRuntime)
      BY <1>1, <1>4, <1>5 DEF Control, FlagsOK, InRuntime, guard
    <3>2. QED
      BY <1>1, <1>4, <1>5, <3>1, GotoFlags, GotoOwnKeys DEF guard
  <2>3. HeapOK'
    <3>1. \A a \in Carried(g) : ~Tracked(g, a)
      BY <1>5 DEF Tracked
    <3>2. QED
      BY <1>1, <1>2, <1>4, <1>5, <3>1, GotoHeap
  <2>4. BufferOK' /\ (~raced' => BufferOrder')
    BY <1>1, <1>2, <1>4, <1>5, GotoBuffer DEF EntryInv, startup
  <2>5. TypeOK'
    BY <1>1, <1>4, <1>5, <2>1, AfterTypes DEF TypeOK, startup, guard
  <2>6. QED
    BY <1>5, <2>1, <2>2, <2>3, <2>4, <2>5 DEF EntryInv, Control, OwnBlocksAccepted
<1>6. CASE f.op \in {"malloc", "aligned_alloc"} /\ Stage(t, "insert") /\ UNCHANGED <<table, heap, process>>
  <2>1. PICK g : g = [f EXCEPT !.stage = "insert"]
    OBVIOUS
  <2>2. /\ g \in FrameType /\ g.stage = "insert" /\ g.op = f.op /\ g.block = f.block
        /\ g.size = f.size /\ g.at = f.at /\ Goto(t, g)
    BY <1>2, <1>3, <1>6, <2>1 DEF FrameType, Stages, Stage
  <2>3. f.op \notin Releases /\ f.block = NoBlock /\ f.at \in HeapAddr
    BY <1>3, <1>6 DEF FrameOK, FrameType, Releases
  <2>4. FrameOK(g, User(t, Depth(t)))
    BY <1>3, <2>2, <2>3 DEF FrameOK, InRuntime, Releases
  <2>5. Carried(g) = {f.at} /\ Carried(f) = {f.at}
    BY <1>3, <2>2, <2>3 DEF Carried, Entries, NoBlock, Null, Releases
  <2>6. f.at \in heap /\ f.at \notin table
    BY <1>1, <1>2, <2>3, <2>5, TopCarries, <1>3 DEF Tracked, NoBlock, Null
  <2>7. table' \subseteq heap' /\ heap' \subseteq HeapAddr /\ heap' = heap /\ table' = table
    BY <1>1, <1>6 DEF HeapOK, TypeOK
  <2>8. QED
    BY <1>1, <1>5, <1>6, <2>2, <2>4, <2>5, <2>6, <2>7
<1>7. CASE f.op \in Releases
  <2>1. /\ table' = table \ {f.block.at}
        /\ process' = IF f.block.at \notin table THEN "double free"
                      ELSE IF Foreign(f) THEN "heap corrupted" ELSE process
        /\ \E r \in RealResults(f) : /\ heap' = r[2]
                                     /\ Goto(t, [f EXCEPT !.stage = "insert", !.at = r[1]])
    BY <1>2, <1>7 DEF Lock, Releases
  <2>2. PICK r \in RealResults(f) : /\ heap' = r[2]
                                    /\ Goto(t, [f EXCEPT !.stage = "insert", !.at = r[1]])
    BY <2>1
  <2>3. f.block \in Block /\ f.block.at \in HeapAddr /\ f.block.user # "runtime" /\ f.at = Null
    BY <1>3, <1>7 DEF FrameOK, InRuntime
  <2>4. Carried(f) = {f.block.at}
    BY <1>3, <2>3 DEF Carried
  <2>5. f.block.at \in heap /\ f.block.at \in table
    BY <1>1, <1>2, <1>3, <2>3, <2>4, TopCarries DEF Tracked
  <2>6. process' = "up"
    BY <1>1, <2>1, <2>5 DEF Foreign
  <2>7. /\ heap' \subseteq HeapAddr
        /\ f.op = "free" => r[1] = Null /\ heap' = heap \ {f.block.at}
        /\ f.op = "realloc" =>
              \/ r[1] = Null /\ heap' = heap
              \/ /\ r[1] \in (HeapAddr \ heap) \cup {f.block.at}
                 /\ heap' = (heap \ {f.block.at}) \cup {r[1]}
    BY <1>1, <1>3, <2>2, <2>3, Results DEF TypeOK
  <2>8. PICK a \in HeapAddr \cup {Null} : a = r[1]
    BY <1>7, <2>3, <2>7 DEF Releases
  <2>9. PICK g : g = [f EXCEPT !.stage = "insert", !.at = a]
    OBVIOUS
  <2>10. /\ g \in FrameType /\ g.stage = "insert" /\ g.op = f.op /\ g.block = f.block
         /\ g.size = f.size /\ g.at = a /\ Goto(t, g)
    BY <1>3, <2>2, <2>8, <2>9 DEF FrameType, Stages
  <2>11. FrameOK(g, User(t, Depth(t)))
    BY <1>3, <1>7, <2>7, <2>8, <2>10 DEF FrameOK, InRuntime, Releases
  <2>12. table' \subseteq heap'
    BY <1>1, <1>7, <2>1, <2>7 DEF HeapOK, Releases
  <2>13. CASE f.op = "free"
    <3>1. Carried(g) = {}
      BY <2>10, <2>13 DEF Carried, Entries
    <3>2. QED
      BY <1>5, <2>1, <2>4, <2>6, <2>7, <2>10, <2>11, <2>12, <2>13, <3>1
  <2>14. CASE f.op = "realloc" /\ a = Null
    <3>1. Carried(g) = {f.block.at} /\ heap' = heap
      BY <1>3, <2>3, <2>7, <2>8, <2>10, <2>14 DEF Carried, Entries
    <3>2. QED
      BY <1>5, <2>1, <2>4, <2>5, <2>6, <2>7, <2>10, <2>11, <2>12, <3>1
  <2>15. CASE f.op = "realloc" /\ a # Null
    <3>1. Carried(g) = {a} /\ heap' = (heap \ {f.block.at}) \cup {a}
      BY <2>7, <2>8, <2>10, <2>15 DEF Carried, Entries
    <3>2. a = f.block.at \/ a \notin heap
      BY <2>7, <2>8, <2>15
    <3>3. a \in heap' /\ a \notin table' /\ (a \in Carried(f) \/ a \notin heap)
      BY <1>1, <2>1, <2>4, <3>1, <3>2 DEF HeapOK
    <3>4. QED
      BY <1>5, <2>1, <2>4, <2>6, <2>7, <2>10, <2>11, <2>12, <3>1, <3>3
  <2>16. QED
    BY <1>7, <2>13, <2>14, <2>15 DEF Releases
<1>8. QED
  BY <1>2, <1>6, <1>7 DEF Lock, Releases

LEMMA FinishKeeps ==
    ASSUME EntryInv, NEW t \in Threads, Finish(t)
    PROVE  EntryInv'
<1>1. /\ Depth(t) > 0 /\ Top(t).stage = "insert"
      /\ Control /\ HeapOK /\ BufferOK /\ TypeOK
  BY DEF Finish, At, EntryInv
<1>2. PICK f : f = Top(t)
  OBVIOUS
<1>3. FrameOK(f, User(t, Depth(t))) /\ f \in FrameType /\ Null \notin HeapAddr /\ f.stage = "insert"
  BY <1>1, <1>2, TopFrame, EntryAssumption DEF Null
<1>4. /\ UNCHANGED <<startup, tls_key, keys, heap, process>> /\ mutex' = Nobody
      /\ table' = table \cup Entries(f) /\ Return(t, f.at) /\ LeaveRuntime(t)
  BY <1>2 DEF Finish
<1>5. User(t, Depth(t)) # "runtime" /\ User(t, Depth(t)) \in {"program", "dlsym", "runtime"}
  BY <1>3, CallersKind DEF FrameOK, InRuntime, User
<1>6. PICK N : N = Left(f, f.at, User(t, Depth(t)))
  OBVIOUS
<1>7. /\ blocks' = blocks \cup N
      /\ \A b, c \in N : b = c
      /\ f.at # Null =>
            /\ \E b \in N : b.at = f.at
            /\ \A b \in N : /\ b = [at |-> f.at, size |-> f.size, user |-> User(t, Depth(t))]
                            /\ b.at = f.at /\ b.user = User(t, Depth(t))
      /\ f.at = Null /\ f.op = "realloc" => N = {f.block}
      /\ f.at = Null /\ f.op # "realloc" => N = {}
  BY <1>2, <1>4, <1>6, LeftFacts
\* What it leaves is what it enters in the table.
<1>8. /\ \A b \in N : b \in Block /\ b.at \in Entries(f) /\ b.user # "runtime"
      /\ Entries(f) \subseteq HeapAddr
      /\ \A a \in Entries(f) : \E b \in N : b.at = a
  <2>1. CASE f.op = "free"
    BY <1>3, <1>7, <2>1 DEF FrameOK, Entries
  <2>2. CASE f.op = "realloc" /\ f.at = Null
    <3>1. f.block \in Block /\ f.block.user = User(t, Depth(t)) /\ f.block.at \in HeapAddr
      BY <1>3, <2>2 DEF FrameOK, Releases
    <3>2. QED
      BY <1>5, <1>7, <2>2, <3>1 DEF Entries
  <2>3. CASE f.op # "free" /\ f.at # Null
    <3>1. f.size \in Sizes /\ f.at \in HeapAddr
      BY <1>3, <2>3 DEF FrameOK
    <3>2. Entries(f) = {f.at}
      BY <2>3 DEF Entries
    <3>3. \A b \in N : b \in Block
      BY <1>5, <1>7, <2>3, <3>1 DEF Block
    <3>4. QED
      BY <1>5, <1>7, <2>3, <3>1, <3>2, <3>3
  <2>4. QED
    <3>1. f.at = Null => f.op \in {"free", "realloc"}
      BY <1>3 DEF FrameOK
    <3>2. QED
      BY <2>1, <2>2, <2>3, <3>1
<1>9. Carried(f) = Entries(f)
  BY <1>3, <1>8 DEF Carried
<1>10. specific \in [Threads -> SUBSET Nat] /\ specific' \in [Threads -> SUBSET Nat]
  BY <1>1, <1>4 DEF TypeOK, LeaveRuntime
<1>11. StackOK' /\ CallersOK' /\ FramesOK' /\ FlagsOK' /\ OwnKeys'
  BY <1>1, <1>4, <1>10, ReturnControl, ReturnFlags DEF InRuntime
<1>12. HeapOK'
  <2>1. Entries(f) \subseteq heap
    BY <1>1, <1>2, <1>9, TopCarries
  <2>2. table' \subseteq heap'
    BY <1>1, <1>4, <2>1 DEF HeapOK
  <2>3. \A b \in N : b.at \in Carried(Top(t)) /\ b.at \in heap' /\ b.at \in table'
    BY <1>2, <1>4, <1>8, <1>9, <2>1
  <2>4. \A a \in HeapAddr \ Carried(Top(t)) : (a \in heap' <=> a \in heap) /\ (a \in table' <=> a \in table)
    BY <1>2, <1>4, <1>9
  <2>5. QED
    BY <1>1, <1>4, <1>7, <1>8, <2>2, <2>3, <2>4, ReturnHeap
<1>13. BufferOK' /\ (~raced' => BufferOrder')
  <2>1. \A b \in N : ~is_bootstrap_ptr(b.at)
    BY <1>8, EntryAssumption DEF is_bootstrap_ptr
  <2>2. QED
    BY <1>1, <1>4, <1>7, <2>1, ReturnBuffer DEF EntryInv, startup
<1>14. TypeOK'
  <2>1. blocks' \subseteq Block /\ table' \cup heap' \subseteq HeapAddr
    BY <1>1, <1>4, <1>7, <1>8 DEF TypeOK
  <2>2. QED
    BY <1>1, <1>4, <1>10, <1>11, <2>1, AfterTypes DEF TypeOK, startup
<1>15. QED
  BY <1>4, <1>11, <1>12, <1>13, <1>14 DEF EntryInv, Control, OwnBlocksAccepted

LEMMA CallsKeep ==
    ASSUME EntryInv, NEW t \in Threads, DlsymCalls(t) \/ Grow(t) \/ ProgramCalls(t)
    PROVE  EntryInv'
<1>1. Depth(t) \in Nat
  BY DEF EntryInv, Control, StackOK, Depth
<1>2. /\ UNCHANGED <<startup, guard, mutex, table, heap, process>>
      /\ Depth(t) > 0 => Top(t).stage \in {"dlsym", "insert"}
      /\ \E op \in Ops, n \in Sizes : Call(t, op, n)
  BY <1>1 DEF DlsymCalls, Grow, ProgramCalls, At, Ops, tables
<1>3. QED
  BY <1>2, CallKeeps

LEMMA EntryInit == Init => EntryInv
<1> SUFFICES ASSUME Init PROVE EntryInv
  OBVIOUS
<1>1. \A t \in Threads : Depth(t) = 0 /\ stack[t] = <<>>
  BY DEF Init, Depth
<1>2. \A t \in Threads : 1 .. Depth(t) = {}
  BY <1>1
<1>3. TypeOK
  BY <1>2, EntryAssumption DEF Init, TypeOK
<1>4. StackOK
  BY DEF Init, StackOK
<1>5. IsFiniteSet(keys)
  BY FS_EmptySet DEF Init
<1>6. CallersOK /\ FramesOK /\ FlagsOK /\ OwnKeys
  BY <1>2, <1>5 DEF Init, CallersOK, FramesOK, FlagsOK, OwnKeys
<1>7. HeapOK /\ BufferOK /\ BufferOrder
  BY <1>2 DEF Init, HeapOK, BufferOK, BufferOrder
<1>8. QED
  BY <1>3, <1>4, <1>6, <1>7 DEF Init, EntryInv, Control, OwnBlocksAccepted

LEMMA EntryStutter ==
    ASSUME EntryInv, UNCHANGED vars
    PROVE  EntryInv'
<1>1. UNCHANGED <<real, initializing, index, tls_key, keys, specific, mutex, table, heap, blocks,
                  stack, raced, process>>
  BY DEF vars, startup, guard, tables
<1>2. \A t \in Threads, i \in Nat : UserIn(t, i)' = UserIn(t, i)
  BY <1>1 DEF UserIn
<1>3. TypeOK' /\ StackOK' /\ CallersOK' /\ FlagsOK' /\ OwnKeys'
  <2>1. TypeOK'
    BY <1>1 DEF EntryInv, TypeOK, Depth
  <2>2. StackOK' /\ CallersOK'
    BY <1>1 DEF EntryInv, Control, StackOK, CallersOK, Depth
  <2>3. FlagsOK'
    BY <1>1 DEF EntryInv, Control, FlagsOK, Depth
  <2>4. OwnKeys'
    BY <1>1 DEF EntryInv, Control, OwnKeys, Depth
  <2>5. QED
    BY <2>1, <2>2, <2>3, <2>4
<1>4. FramesOK'
  <2>1. \A t \in Threads : Depth(t)' = Depth(t) /\ Depth(t) \in Nat
    BY <1>1 DEF EntryInv, Control, StackOK, Depth
  <2>2. \A t \in Threads : \A i \in 1 .. Depth(t) : User(t, i)' = User(t, i)
    BY <1>2, <2>1 DEF User
  <2>3. QED
    BY <1>1, <2>1, <2>2 DEF EntryInv, Control, FramesOK
<1>5. HeapOK' /\ BufferOK' /\ (~raced' => BufferOrder')
  BY <1>1 DEF EntryInv, HeapOK, BufferOK, BufferOrder, BufferFrame, Depth
<1>6. QED
  BY <1>1, <1>3, <1>4, <1>5 DEF EntryInv, Control, OwnBlocksAccepted

LEMMA EntryStep == EntryInv /\ [Next]_vars => EntryInv'
<1> SUFFICES ASSUME EntryInv, [Next]_vars PROVE EntryInv'
  OBVIOUS
<1>1. ASSUME NEW t \in Threads, Step(t) PROVE EntryInv'
  <2>1. CASE Enter(t)
    BY <2>1, EnterKeeps
  <2>2. CASE bootstrap_malloc(t)
    BY <2>2, BootstrapKeeps
  <2>3. CASE bootstrap_bump(t)
    BY <2>3, BumpKeeps
  <2>4. CASE init_real_functions(t)
    BY <2>4, InitRealKeeps
  <2>5. CASE Guard(t)
    BY <2>5, GuardKeeps
  <2>6. CASE set_in_runtime(t)
    BY <2>6, SetKeeps
  <2>7. CASE PassThrough(t)
    BY <2>7, PassThroughKeeps
  <2>8. CASE Allocate(t)
    BY <2>8, AllocateKeeps
  <2>9. CASE Lock(t)
    BY <2>9, LockKeeps
  <2>10. CASE Finish(t)
    BY <2>10, FinishKeeps
  <2>11. CASE DlsymCalls(t) \/ Grow(t)
    BY <2>11, CallsKeep
  <2>12. QED
    BY <1>1, <2>1, <2>2, <2>3, <2>4, <2>5, <2>6, <2>7, <2>8, <2>9, <2>10, <2>11 DEF Step
<1>2. ASSUME NEW t \in Threads, ProgramCalls(t) PROVE EntryInv'
  BY <1>2, CallsKeep
<1>3. CASE UNCHANGED vars
  BY <1>3, EntryStutter
<1>4. QED
  BY <1>1, <1>2, <1>3 DEF Next

LEMMA EntryInvariant == Spec => []EntryInv
BY EntryInit, EntryStep, PTL DEF Spec

-----------------------------------------------------------------------------
(* Who holds the tables *)

\* A thread holds the tables exactly while one of its calls is in their section.
InSection(t) == \E i \in 1 .. Depth(t) : stack[t][i].stage = "insert"
MutexFollows == \A t \in Threads : mutex = t <=> InSection(t)

LEMMA StageIsSet ==
    ASSUME NEW f \in FrameType, NEW stage
    PROVE  /\ [f EXCEPT !.stage = stage].stage = stage
           /\ \A a : [f EXCEPT !.stage = stage, !.at = a].stage = stage
           /\ \A a : [f EXCEPT !.stage = stage, !.key = a].stage = stage
BY DEF FrameType

LEMMA SectionAfterGoto ==
    ASSUME StackOK, NEW t \in Threads, Depth(t) > 0, NEW f, Goto(t, f),
           NEW u \in Threads, u = t => (f.stage = "insert" <=> Top(t).stage = "insert")
    PROVE  InSection(u)' <=> InSection(u)
<1>1. stack \in [Threads -> Seq(FrameType)] /\ Len(stack[t]) \in 1 .. Len(stack[t])
  BY DEF StackOK, Depth
<1>2. stack' = [stack EXCEPT ![t] = [stack[t] EXCEPT ![Len(stack[t])] = f]]
  BY DEF Goto, Depth
<1>3. PICK s : s = [stack[t] EXCEPT ![Len(stack[t])] = f]
  OBVIOUS
<1>4. /\ s \in Seq(FrameType \cup {f}) /\ Len(s) = Len(stack[t])
      /\ \A i \in 1 .. Len(stack[t]) : s[i] = IF i = Len(stack[t]) THEN f ELSE stack[t][i]
  BY <1>1, <1>3
<1>5. stack' = [stack EXCEPT ![t] = s]
  BY <1>2, <1>3
<1>6. Top(t) = stack[t][Len(stack[t])]
  BY TopFacts DEF Depth
<1>7. QED
  BY <1>1, <1>4, <1>5, <1>6 DEF InSection, Depth

LEMMA SectionAfterPush ==
    ASSUME EntryInv, NEW t \in Threads, NEW op \in Ops, NEW n \in Sizes, Call(t, op, n),
           NEW u \in Threads
    PROVE  InSection(u)' <=> InSection(u)
<1>1. StackOK /\ blocks \subseteq Block
  BY DEF EntryInv, Control, TypeOK
<1>2. PICK block \in Block \cup {NoBlock}, m \in Nat : Push(t, op, block, m)
  BY <1>1, CallPushes
<1>3. Frame(op, block, m) \in FrameType /\ Frame(op, block, m).stage = "entry"
  BY <1>2 DEF Frame, FrameType, Stages, NoKey
<1>4. /\ \A v \in Threads : /\ Depth(v)' = IF v = t THEN Depth(t) + 1 ELSE Depth(v)
                            /\ \A i \in 1 .. Depth(v) : stack'[v][i] = stack[v][i]
      /\ stack'[t][Depth(t) + 1] = Frame(op, block, m)
  BY <1>1, <1>2, <1>3, AfterPush
<1>5. Depth(u) \in Nat
  BY <1>1 DEF StackOK, Depth
<1>6. QED
  BY <1>3, <1>4, <1>5 DEF InSection

LEMMA SectionAfterReturn ==
    ASSUME StackOK, NEW t \in Threads, Depth(t) > 0, NEW a, Return(t, a),
           NEW u \in Threads, u = t => Top(t).stage # "insert"
    PROVE  InSection(u)' <=> InSection(u)
<1>1. /\ Depth(u)' = IF u = t THEN Depth(t) - 1 ELSE Depth(u)
      /\ \A i \in 1 .. Depth(u)' : stack'[u][i] = stack[u][i]
  BY AfterReturn
<1>2. Depth(u) \in Nat
  BY DEF StackOK, Depth
<1>3. \A i \in 1 .. Depth(u) : stack[u][i].stage = "insert" => i \in 1 .. Depth(u)'
  BY <1>1, <1>2, TopFacts
<1>4. \A i \in 1 .. Depth(u)' : i \in 1 .. Depth(u)
  BY <1>1, <1>2
<1>5. QED
  BY <1>1, <1>3, <1>4 DEF InSection

\* A call that waits for the tables is the only one of its thread that is in the runtime.
LEMMA SectionOfTop ==
    ASSUME Control, NEW t \in Threads, Depth(t) > 0, Top(t).stage \in {"lock", "insert"},
           NEW i \in 1 .. Depth(t), i # Depth(t)
    PROVE  stack[t][i].stage # "insert"
<1>1. Depth(t) \in 1 .. Depth(t) /\ Top(t) = stack[t][Depth(t)] /\ i < Depth(t)
  BY TopFacts DEF Control
<1>2. QED
  BY <1>1, OneInRuntime DEF InRuntime

LEMMA MutexStep ==
    ASSUME EntryInv, MutexFollows, [Next]_vars
    PROVE  MutexFollows'
<1>1. Control /\ StackOK
  BY DEF EntryInv, Control
<1>2. ASSUME NEW t \in Threads, Depth(t) > 0, mutex' = mutex, Top(t).stage # "insert",
             \/ \E f : Goto(t, f) /\ f.stage # "insert"
             \/ \E a : Return(t, a)
      PROVE  MutexFollows'
  BY <1>1, <1>2, SectionAfterGoto, SectionAfterReturn DEF MutexFollows
<1>3. ASSUME NEW t \in Threads, mutex' = mutex, \E op \in Ops, n \in Sizes : Call(t, op, n)
      PROVE  MutexFollows'
  BY <1>3, SectionAfterPush DEF MutexFollows
<1>4. ASSUME NEW t \in Threads, Lock(t) PROVE MutexFollows'
  <2>1. Depth(t) > 0 /\ Top(t).stage = "lock" /\ mutex = Nobody /\ mutex' = t
    BY <1>4 DEF Lock, At
  <2>2. PICK f : Goto(t, f) /\ f.stage = "insert"
    <3>1. Top(t) \in FrameType
      BY <1>1, <2>1, TopFacts
    <3>2. /\ [Top(t) EXCEPT !.stage = "insert"].stage = "insert"
          /\ \A a : [Top(t) EXCEPT !.stage = "insert", !.at = a].stage = "insert"
      BY <3>1, StageIsSet
    <3>3. \/ Goto(t, [Top(t) EXCEPT !.stage = "insert"])
          \/ \E a : Goto(t, [Top(t) EXCEPT !.stage = "insert", !.at = a])
      BY <1>4 DEF Lock, Stage
    <3>4. QED
      BY <3>2, <3>3, Zenon
  <2>3. \A u \in Threads \ {t} : InSection(u)' <=> InSection(u)
    BY <1>1, <2>1, <2>2, SectionAfterGoto
  <2>4. InSection(t)'
    <3>1. stack \in [Threads -> Seq(FrameType)] /\ Len(stack[t]) \in 1 .. Len(stack[t])
      BY <1>1, <2>1 DEF StackOK, Depth
    <3>2. stack' = [stack EXCEPT ![t] = [stack[t] EXCEPT ![Len(stack[t])] = f]]
      BY <2>2 DEF Goto, Depth
    <3>3. /\ [stack[t] EXCEPT ![Len(stack[t])] = f] \in Seq(FrameType \cup {f})
          /\ Len([stack[t] EXCEPT ![Len(stack[t])] = f]) = Len(stack[t])
          /\ [stack[t] EXCEPT ![Len(stack[t])] = f][Len(stack[t])] = f
      BY <3>1
    <3>4. stack'[t][Len(stack[t])] = f /\ Len(stack'[t]) = Len(stack[t])
      BY <3>1, <3>2, <3>3
    <3>5. QED
      BY <2>2, <3>1, <3>4 DEF InSection, Depth
  <2>5. QED
    BY <2>1, <2>3, <2>4, EntryAssumption DEF MutexFollows
<1>5. ASSUME NEW t \in Threads, Finish(t) PROVE MutexFollows'
  <2>1. /\ Depth(t) > 0 /\ Top(t).stage = "insert" /\ mutex' = Nobody
        /\ Return(t, Top(t).at)
    BY <1>5 DEF Finish, At
  <2>2. InSection(t)
    BY <1>1, <2>1, TopFacts DEF InSection
  <2>3. \A u \in Threads \ {t} : InSection(u)' <=> InSection(u)
    BY <1>1, <2>1, SectionAfterReturn
  <2>4. ~InSection(t)'
    <3>1. ASSUME NEW i \in 1 .. Depth(t)' PROVE stack'[t][i].stage # "insert"
      <4>1. i \in 1 .. Depth(t) /\ i # Depth(t) /\ stack'[t][i] = stack[t][i]
        BY <1>1, <2>1, <3>1, AfterReturn
      <4>2. QED
        BY <1>1, <2>1, <4>1, SectionOfTop
    <3>2. QED
      BY <3>1 DEF InSection
  <2>5. QED
    BY <2>1, <2>2, <2>3, <2>4, EntryAssumption DEF MutexFollows
<1>6. ASSUME NEW t \in Threads, Step(t) PROVE MutexFollows'
  <2>1. CASE Lock(t) \/ Finish(t)
    BY <1>4, <1>5, <2>1
  <2>2. CASE DlsymCalls(t) \/ Grow(t)
    BY <1>3, <2>2 DEF DlsymCalls, Grow, tables, Ops
  <2>3. CASE Enter(t) \/ bootstrap_malloc(t) \/ bootstrap_bump(t) \/ init_real_functions(t)
             \/ Guard(t) \/ set_in_runtime(t) \/ PassThrough(t) \/ Allocate(t)
    <3>1. /\ Depth(t) > 0 /\ mutex' = mutex
          /\ Top(t).stage \in {"entry", "bootstrap", "bump", "dlsym", "set", "guard", "key",
                               "allocate"}
      BY <2>3 DEF Enter, bootstrap_malloc, bootstrap_bump, init_real_functions, Guard,
                  set_in_runtime, PassThrough, Allocate, At, tables
    <3>2. Top(t) \in FrameType
      BY <1>1, <3>1, TopFacts
    <3>3. \/ \E stage \in Stages \ {"insert"} :
                \/ Stage(t, stage)
                \/ \E a : Goto(t, [Top(t) EXCEPT !.stage = stage, !.at = a])
                \/ \E a : Goto(t, [Top(t) EXCEPT !.stage = stage, !.key = a])
          \/ \E a : Return(t, a)
      BY <2>3 DEF Enter, bootstrap_malloc, bootstrap_bump, init_real_functions, Guard,
                  set_in_runtime, PassThrough, Allocate, FirstStage, Stages
    <3>4. (\E f : Goto(t, f) /\ f.stage # "insert") \/ \E a : Return(t, a)
      <4>1. \A stage \in Stages \ {"insert"} :
               /\ [Top(t) EXCEPT !.stage = stage].stage # "insert"
               /\ \A a : [Top(t) EXCEPT !.stage = stage, !.at = a].stage # "insert"
               /\ \A a : [Top(t) EXCEPT !.stage = stage, !.key = a].stage # "insert"
        BY <3>2, StageIsSet
      <4>2. QED
        BY <3>3, <4>1, Zenon DEF Stage
    <3>5. QED
      BY <1>2, <3>1, <3>4
  <2>4. QED
    BY <1>6, <2>1, <2>2, <2>3 DEF Step
<1>7. ASSUME NEW t \in Threads, ProgramCalls(t) PROVE MutexFollows'
  BY <1>3, <1>7 DEF ProgramCalls, tables
<1>8. CASE UNCHANGED vars
  BY <1>8 DEF vars, tables, MutexFollows, InSection, Depth
<1>9. QED
  BY <1>6, <1>7, <1>8 DEF Next

LEMMA MutexInvariant == Spec => [](EntryInv /\ MutexFollows)
<1>1. Init => MutexFollows
  BY EntryAssumption DEF Init, MutexFollows, InSection, Depth
<1>2. EntryInv /\ MutexFollows /\ [Next]_vars => MutexFollows'
  BY MutexStep
<1>3. QED
  BY <1>1, <1>2, EntryInvariant, PTL DEF Spec

-----------------------------------------------------------------------------
(* Theorems *)

\* Every variable keeps its kind, and a block in use is where a block may be, however the
\* calls of the entry points nest.
THEOREM EntryTypes == Spec => []TypeOK
<1>1. EntryInv => TypeOK
  BY DEF EntryInv
<1>2. QED
  BY <1>1, EntryInvariant, PTL

\* get_in_runtime tells of every thread whether one of its calls is between the guard and
\* its drop, whichever of several threads made TLS_KEY, and however many lost it.
THEOREM FlagIsRight == Spec => []FlagTellsTheTruth
<1>1. EntryInv => FlagTellsTheTruth
  <2>1. SUFFICES ASSUME EntryInv, NEW t \in Threads
                 PROVE  get_in_runtime(t) <=>
                          \E i \in 1 .. Depth(t) : stack[t][i].stage \in {"allocate", "lock", "insert"}
    BY DEF FlagTellsTheTruth
  <2>2. PICK inside \in BOOLEAN :
           inside <=> \E i \in 1 .. Depth(t) : stack[t][i].stage \in {"allocate", "lock", "insert"}
    OBVIOUS
  <2>3. (inside => tls_key # NoKey) /\ specific[t] = IF inside THEN {tls_key} ELSE {}
    BY <2>1, <2>2 DEF EntryInv, Control, FlagsOK, InRuntime
  <2>4. QED
    BY <2>2, <2>3 DEF get_in_runtime
<1>2. QED
  BY <1>1, EntryInvariant, PTL

\* free and realloc never report a double free, nor hand the real allocator a block that
\* is not its own, for a program that releases what it owns: a block of the buffer, a
\* tracked one and one of the runtime itself are told apart as they were handed out.
THEOREM OwnBlocksAreAccepted == Spec => []OwnBlocksAccepted
<1>1. EntryInv => OwnBlocksAccepted
  BY DEF EntryInv
<1>2. QED
  BY <1>1, EntryInvariant, PTL

\* bootstrap_malloc hands out aligned blocks within its buffer, which overlap no other
\* block as long as no two threads are in it at once.
THEOREM BufferIsSound == Spec => []BootstrapBlocks
<1>1. EntryInv => BootstrapBlocks
  <2>1. SUFFICES ASSUME EntryInv, NEW b \in blocks, is_bootstrap_ptr(b.at)
                 PROVE  /\ Placed(b.at, b.size)
                        /\ ~raced => \A c \in blocks \ {b} : Disjoint(b, c)
    BY DEF BootstrapBlocks, Placed
  <2>2. Placed(b.at, b.size) /\ blocks \subseteq Block
    BY <2>1 DEF EntryInv, BufferOK, TypeOK
  <2>3. ASSUME ~raced, NEW c \in blocks \ {b} PROVE Disjoint(b, c)
    <3>1. CASE is_bootstrap_ptr(c.at)
      BY <2>1, <2>3, <3>1 DEF EntryInv, BufferOrder
    <3>2. CASE ~is_bootstrap_ptr(c.at)
      <4>1. c.at \in HeapAddr
        BY <2>2, <3>2 DEF Block, is_bootstrap_ptr
      <4>2. /\ c.at \in Nat /\ c.at >= BufferSize /\ BufferSize \in Nat
            /\ b.at \in Nat /\ b.size \in Nat
        BY <2>1, <2>2, <4>1, EntryAssumption DEF Block, is_bootstrap_ptr
      <4>3. QED
        BY <2>2, <4>2 DEF Placed, Disjoint
    <3>3. QED
      BY <3>1, <3>2
  <2>4. QED
    BY <2>2, <2>3
<1>2. QED
  BY <1>1, EntryInvariant, PTL

\* Neither a table that grows nor dlsym makes a thread wait for a mutex it holds itself, and
\* none returns with it: for any number of threads the holder of the tables goes on.
THEOREM NobodyWaitsForItself == Spec => []HolderGoesOn
<1>1. EntryInv /\ MutexFollows => HolderGoesOn
  <2>1. SUFFICES ASSUME EntryInv, MutexFollows, mutex # Nobody
                 PROVE  Depth(mutex) > 0 /\ ~At(mutex, "lock")
    BY DEF HolderGoesOn
  <2>2. PICK t \in Threads : t = mutex
    BY <2>1 DEF EntryInv, TypeOK
  <2>3. PICK i \in 1 .. Depth(t) : stack[t][i].stage = "insert"
    BY <2>1, <2>2 DEF MutexFollows, InSection
  <2>4. Control /\ Depth(t) \in Nat
    BY <2>1 DEF EntryInv, Control, StackOK, Depth
  <2>5. Depth(t) > 0
    BY <2>3, <2>4
  <2>6. ASSUME Top(t).stage = "lock" PROVE FALSE
    <3>1. i # Depth(t)
      BY <2>3, <2>4, <2>5, <2>6, TopFacts DEF Control
    <3>2. QED
      BY <2>3, <2>4, <2>5, <2>6, <3>1, SectionOfTop
  <2>7. QED
    BY <2>2, <2>5, <2>6 DEF At
<1>2. QED
  BY <1>1, MutexInvariant, PTL
=============================================================================
