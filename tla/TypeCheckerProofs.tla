--------------------------- MODULE TypeCheckerProofs ---------------------------
(***************************************************************************)
(* The verdict of the type checker is that of C, function by function, for *)
(* every program of any number of functions and statements, and what it    *)
(* accepts returns a value on every path.                                  *)
(***************************************************************************)
EXTENDS TypeChecker, SequenceTheorems, TLAPS

-----------------------------------------------------------------------------
(* The inductive invariant *)

Scopes == SUBSET Names

\* The table t of types may have more scopes than dec, those of C: errors left them open,
\* below those of the function the walk is in.  The globals of C are in one of those below.
Kept(t, dec) ==
    LET below == Len(t) - Len(dec)
    IN  /\ \A g \in dec[1] : \E i \in 1 .. below + 1 : g \in t[i]
        /\ \A j \in 2 .. Len(dec) : dec[j] \subseteq t[below + j]

\* Before the first error the tables are those of C.
InStep(t, locals, dec) ==
    /\ t = dec
    /\ locals[1] = {}
    /\ \A i \in 2 .. Len(dec) : locals[i] = dec[i]

TablesOK(t, locals, dec, clean) ==
    /\ t \in Seq(Scopes) /\ locals \in Seq(Scopes) /\ dec \in Seq(Scopes)
    /\ Len(locals) = Len(t)
    /\ Len(dec) \in 1 .. Len(t)
    /\ Kept(t, dec)
    /\ clean => InStep(t, locals, dec)

\* lev[k] is the depth when k of the statements o were open; d is that of now.
Height(lev, o, d) ==
    /\ lev \in [Nat -> Nat]
    /\ lev[1] = 2
    /\ \A k \in 2 .. Len(o) : lev[k] = lev[k - 1] + ScopesOf(o[k])
    /\ lev[Len(o)] = d

Balanced(o, d) == \E lev : Height(lev, o, d)

\* One of the i outer statements is an __unsafe.
UnsafeIn(o, i) == \E j \in 1 .. i : o[j].kind = "unsafe"

FlagOK(o, flag) ==
    /\ flag <=> UnsafeIn(o, Len(o))
    /\ \A i \in 1 .. Len(o) : o[i].prev_unsafe <=> UnsafeIn(o, i - 1)

\* What the definite return analysis takes for certain has no way through, unless the body
\* of a loop was relied on.
FrameFlow(s, relied) ==
    ~relied => ~(s.certain /\ s.reached) /\ ~(s.thenCertain /\ s.thenReached)

Flow(o, relied) ==
    /\ \A i \in 1 .. Len(o) : FrameFlow(o[i], relied)
    /\ \A i \in 2 .. Len(o) : o[i].reached \/ o[i].thenReached => o[i - 1].reached

FramesOK(o, d, flag, relied, clean) ==
    /\ o \in Seq(Frame)
    /\ Len(o) > 0
    /\ o[1].kind = "block"
    /\ Balanced(o, d)
    /\ Flow(o, relied)
    /\ clean => FlagOK(o, flag)

InFunction ==
    /\ FramesOK(open, scope_depth, in_unsafe, loopReturn, errors = {})
    /\ Len(declared) = scope_depth + 1

BetweenFunctions == Len(declared) = 1 /\ (errors = {} => ~in_unsafe)

SameVerdict == errors = {} <=> wrong = {}

WalkInv ==
    /\ TypeOK
    /\ TablesOK(variables, local_vars, declared, errors = {})
    /\ phase = "body" => InFunction
    /\ phase # "body" => BetweenFunctions
    /\ fallsOff = {}
    /\ SameVerdict

-----------------------------------------------------------------------------
(* Sequences *)

LEMMA Entered ==
    ASSUME NEW S, NEW t \in Seq(S), NEW a \in S
    PROVE  /\ Append(t, a) \in Seq(S)
           /\ Len(Append(t, a)) = Len(t) + 1
           /\ \A i \in 1 .. Len(t) : Append(t, a)[i] = t[i]
           /\ Append(t, a)[Len(t) + 1] = a
BY AppendProperties

LEMMA EnteredTwo ==
    ASSUME NEW S, NEW t \in Seq(S), NEW a \in S, NEW b \in S
    PROVE  /\ t \o <<a, b>> \in Seq(S)
           /\ Len(t \o <<a, b>>) = Len(t) + 2
           /\ \A i \in 1 .. Len(t) : (t \o <<a, b>>)[i] = t[i]
           /\ (t \o <<a, b>>)[Len(t) + 1] = a
           /\ (t \o <<a, b>>)[Len(t) + 2] = b
<1>1. <<a, b>> \in Seq(S) /\ Len(<<a, b>>) = 2
  OBVIOUS
<1>2. QED
  BY <1>1, ConcatProperties

LEMMA Dropped ==
    ASSUME NEW S, NEW t \in Seq(S), NEW k \in Nat, k <= Len(t)
    PROVE  /\ Without(t, k) \in Seq(S)
           /\ Len(Without(t, k)) = Len(t) - k
           /\ \A i \in 1 .. Len(t) - k : Without(t, k)[i] = t[i]
<1>1. Len(t) \in Nat
  BY LenProperties
<1>2. QED
  BY <1>1, SubSeqProperties DEF Without

LEMMA FrontOf ==
    ASSUME NEW S, NEW t \in Seq(S), Len(t) > 0
    PROVE  /\ Front(t) \in Seq(S)
           /\ Len(Front(t)) = Len(t) - 1
           /\ \A i \in 1 .. Len(t) - 1 : Front(t)[i] = t[i]
<1>1. Front(t) = Without(t, 1)
  BY DEF Front, Without
<1>2. Len(t) \in Nat /\ 1 <= Len(t)
  BY LenProperties
<1>3. QED
  BY <1>1, <1>2, Dropped, Z3

LEMMA Exited ==
    ASSUME NEW S, NEW t \in Seq(S), Len(t) > 0
    PROVE  /\ exit_scope(t) \in Seq(S)
           /\ Len(exit_scope(t)) = Len(t) - 1
           /\ \A i \in 1 .. Len(t) - 1 : exit_scope(t)[i] = t[i]
<1>1. exit_scope(t) = Front(t)
  BY DEF exit_scope
<1>2. QED
  BY <1>1, FrontOf

LEMMA LeavesTwo ==
    ASSUME NEW S, NEW t \in Seq(S), Len(t) > 2
    PROVE  exit_scope(exit_scope(t)) = Without(t, 2)
<1>1. Len(t) \in Nat
  BY LenProperties
<1>2. /\ exit_scope(t) \in Seq(S) /\ Len(exit_scope(t)) = Len(t) - 1
      /\ \A i \in 1 .. Len(t) - 1 : exit_scope(t)[i] = t[i]
  BY <1>1, Exited
<1>3. /\ exit_scope(exit_scope(t)) \in Seq(S) /\ Len(exit_scope(exit_scope(t))) = Len(t) - 2
      /\ \A i \in 1 .. Len(t) - 2 : exit_scope(exit_scope(t))[i] = exit_scope(t)[i]
  BY <1>1, <1>2, Exited
<1>4. /\ Without(t, 2) \in Seq(S) /\ Len(Without(t, 2)) = Len(t) - 2
      /\ \A i \in 1 .. Len(t) - 2 : Without(t, 2)[i] = t[i]
  BY <1>1, Dropped
<1>5. \A i \in 1 .. Len(t) - 2 : exit_scope(exit_scope(t))[i] = Without(t, 2)[i]
  BY <1>1, <1>2, <1>3, <1>4
<1>6. QED
  BY <1>3, <1>4, <1>5, SeqEqual

LEMMA Inserted ==
    ASSUME NEW t \in Seq(Scopes), NEW n \in Names, Len(t) > 0
    PROVE  /\ insert(t, n) \in Seq(Scopes)
           /\ Len(insert(t, n)) = Len(t)
           /\ \A i \in 1 .. Len(t) - 1 : insert(t, n)[i] = t[i]
           /\ insert(t, n)[Len(t)] = t[Len(t)] \cup {n}
<1>1. Len(t) \in 1 .. Len(t) /\ t[Len(t)] \in Scopes
  BY LenProperties, ElementOfSeq
<1>2. t[Len(t)] \cup {n} \in Scopes
  BY <1>1 DEF Scopes
<1>3. QED
  BY <1>1, <1>2, ExceptSeq DEF insert

-----------------------------------------------------------------------------
(* The tables *)

\* An error leaves the tables, and C goes on with its globals.
LEMMA TablesFailed ==
    ASSUME NEW t, NEW l, NEW dec, NEW clean, TablesOK(t, l, dec, clean)
    PROVE  TablesOK(t, l, <<dec[1]>>, FALSE)
<1>1. /\ dec[1] \in Scopes /\ Len(dec) \in 1 .. Len(t) /\ Len(t) \in Nat
  BY ElementOfSeq, LenProperties DEF TablesOK
<1>2. <<dec[1]>> \in Seq(Scopes) /\ Len(<<dec[1]>>) = 1 /\ <<dec[1]>>[1] = dec[1]
  BY <1>1
<1>3. Kept(t, <<dec[1]>>)
  BY <1>1, <1>2 DEF TablesOK, Kept
<1>4. QED
  BY <1>1, <1>2, <1>3 DEF TablesOK

LEMMA TablesEntered ==
    ASSUME NEW t, NEW l, NEW dec, NEW clean, NEW a \in Scopes, TablesOK(t, l, dec, clean)
    PROVE  /\ TablesOK(Append(t, a), Append(l, a), Append(dec, a), clean)
           /\ Len(Append(dec, a)) = Len(dec) + 1
<1> DEFINE tt == Append(t, a)
           ll == Append(l, a)
           dd == Append(dec, a)
<1>1. /\ Len(dec) \in 1 .. Len(t) /\ Len(t) \in Nat /\ Len(l) = Len(t)
      /\ t \in Seq(Scopes) /\ l \in Seq(Scopes) /\ dec \in Seq(Scopes)
  BY LenProperties DEF TablesOK
<1>2. /\ tt \in Seq(Scopes) /\ Len(tt) = Len(t) + 1 /\ tt[Len(t) + 1] = a
      /\ \A i \in 1 .. Len(t) : tt[i] = t[i]
  BY <1>1, Entered
<1>3. /\ ll \in Seq(Scopes) /\ Len(ll) = Len(t) + 1 /\ ll[Len(t) + 1] = a
      /\ \A i \in 1 .. Len(t) : ll[i] = l[i]
  BY <1>1, Entered
<1>4. /\ dd \in Seq(Scopes) /\ Len(dd) = Len(dec) + 1 /\ dd[Len(dec) + 1] = a
      /\ \A i \in 1 .. Len(dec) : dd[i] = dec[i]
  BY <1>1, Entered
<1>5. clean => tt = dd
  BY DEF TablesOK, InStep
<1> HIDE DEF tt, ll, dd
<1> DEFINE below == Len(t) - Len(dec)
<1>b. /\ below \in Nat /\ Len(tt) - Len(dd) = below /\ Len(t) = below + Len(dec)
      /\ \A g \in dec[1] : \E i \in 1 .. below + 1 : g \in t[i]
      /\ \A j \in 2 .. Len(dec) : dec[j] \subseteq t[below + j]
  BY <1>1, <1>2, <1>4 DEF TablesOK, Kept
<1> HIDE DEF below
<1>6. Kept(tt, dd)
  <2>1. \A i \in 1 .. below + 1 : tt[i] = t[i]
    BY <1>1, <1>2, <1>b
  <2>2. dd[1] = dec[1]
    BY <1>1, <1>4
  <2>3. ASSUME NEW j \in 2 .. Len(dd)
        PROVE  dd[j] \subseteq tt[below + j]
    <3>1. CASE j \in 2 .. Len(dec)
      <4>1. below + j \in 1 .. Len(t) /\ j \in 1 .. Len(dec) /\ j \in 2 .. Len(dec)
        BY <3>1, <1>1, <1>b
      <4>2. tt[below + j] = t[below + j] /\ dd[j] = dec[j]
        BY <4>1, <1>2, <1>4
      <4>3. QED
        BY <4>1, <4>2, <1>b
    <3>2. CASE j = Len(dec) + 1
      BY <3>2, <1>1, <1>2, <1>4, <1>b
    <3>3. QED
      BY <3>1, <3>2, <1>1, <1>4
  <2>4. QED
    BY <2>1, <2>2, <2>3, <1>b DEF Kept
<1>7. clean => InStep(tt, ll, dd)
  <2>1. SUFFICES ASSUME clean PROVE InStep(tt, ll, dd)
    OBVIOUS
  <2>2. Len(l) = Len(dec) /\ l[1] = {} /\ \A i \in 2 .. Len(dec) : l[i] = dec[i]
    BY <2>1, <1>1 DEF TablesOK, InStep
  <2>3. ll[1] = {}
    BY <2>2, <1>1, <1>3
  <2>4. ASSUME NEW i \in 2 .. Len(dd)
        PROVE  ll[i] = dd[i]
    <3>1. CASE i \in 2 .. Len(dec)
      BY <3>1, <2>2, <1>1, <1>3, <1>4
    <3>2. CASE i = Len(dec) + 1
      BY <3>2, <2>2, <1>1, <1>3, <1>4
    <3>3. QED
      BY <3>1, <3>2, <1>1, <1>4
  <2>5. QED
    BY <2>1, <2>3, <2>4, <1>5 DEF InStep
<1>8. TablesOK(tt, ll, dd, clean) /\ Len(dd) = Len(dec) + 1
  BY <1>1, <1>2, <1>3, <1>4, <1>6, <1>7 DEF TablesOK
<1>9. QED
  BY <1>8 DEF tt, ll, dd

LEMMA TablesEnteredTwo ==
    ASSUME NEW t, NEW l, NEW dec, NEW clean, NEW a \in Scopes, NEW b \in Scopes,
           TablesOK(t, l, dec, clean)
    PROVE  /\ TablesOK(t \o <<a, b>>, l \o <<a, b>>, dec \o <<a, b>>, clean)
           /\ Len(dec \o <<a, b>>) = Len(dec) + 2
<1> DEFINE tt == t \o <<a, b>>
           ll == l \o <<a, b>>
           dd == dec \o <<a, b>>
<1>1. /\ Len(dec) \in 1 .. Len(t) /\ Len(t) \in Nat /\ Len(l) = Len(t)
      /\ t \in Seq(Scopes) /\ l \in Seq(Scopes) /\ dec \in Seq(Scopes)
  BY LenProperties DEF TablesOK
<1>2. /\ tt \in Seq(Scopes) /\ Len(tt) = Len(t) + 2
      /\ tt[Len(t) + 1] = a /\ tt[Len(t) + 2] = b
      /\ \A i \in 1 .. Len(t) : tt[i] = t[i]
  BY <1>1, EnteredTwo
<1>3. /\ ll \in Seq(Scopes) /\ Len(ll) = Len(t) + 2
      /\ ll[Len(t) + 1] = a /\ ll[Len(t) + 2] = b
      /\ \A i \in 1 .. Len(t) : ll[i] = l[i]
  BY <1>1, EnteredTwo
<1>4. /\ dd \in Seq(Scopes) /\ Len(dd) = Len(dec) + 2
      /\ dd[Len(dec) + 1] = a /\ dd[Len(dec) + 2] = b
      /\ \A i \in 1 .. Len(dec) : dd[i] = dec[i]
  BY <1>1, EnteredTwo
<1>5. clean => tt = dd
  BY DEF TablesOK, InStep
<1> HIDE DEF tt, ll, dd
<1> DEFINE below == Len(t) - Len(dec)
<1>b. /\ below \in Nat /\ Len(tt) - Len(dd) = below /\ Len(t) = below + Len(dec)
      /\ \A g \in dec[1] : \E i \in 1 .. below + 1 : g \in t[i]
      /\ \A j \in 2 .. Len(dec) : dec[j] \subseteq t[below + j]
  BY <1>1, <1>2, <1>4 DEF TablesOK, Kept
<1> HIDE DEF below
<1>6. Kept(tt, dd)
  <2>1. \A i \in 1 .. below + 1 : tt[i] = t[i]
    BY <1>1, <1>2, <1>b
  <2>2. dd[1] = dec[1]
    BY <1>1, <1>4
  <2>3. ASSUME NEW j \in 2 .. Len(dd)
        PROVE  dd[j] \subseteq tt[below + j]
    <3>1. CASE j \in 2 .. Len(dec)
      <4>1. below + j \in 1 .. Len(t) /\ j \in 1 .. Len(dec) /\ j \in 2 .. Len(dec)
        BY <3>1, <1>1, <1>b
      <4>2. tt[below + j] = t[below + j] /\ dd[j] = dec[j]
        BY <4>1, <1>2, <1>4
      <4>3. QED
        BY <4>1, <4>2, <1>b
    <3>2. CASE j = Len(dec) + 1
      BY <3>2, <1>1, <1>2, <1>4, <1>b
    <3>3. CASE j = Len(dec) + 2
      BY <3>3, <1>1, <1>2, <1>4, <1>b
    <3>4. QED
      BY <3>1, <3>2, <3>3, <1>1, <1>4
  <2>4. QED
    BY <2>1, <2>2, <2>3, <1>b DEF Kept
<1>7. clean => InStep(tt, ll, dd)
  <2>1. SUFFICES ASSUME clean PROVE InStep(tt, ll, dd)
    OBVIOUS
  <2>2. Len(l) = Len(dec) /\ l[1] = {} /\ \A i \in 2 .. Len(dec) : l[i] = dec[i]
    BY <2>1, <1>1 DEF TablesOK, InStep
  <2>3. ll[1] = {}
    BY <2>2, <1>1, <1>3
  <2>4. ASSUME NEW i \in 2 .. Len(dd)
        PROVE  ll[i] = dd[i]
    <3>1. CASE i \in 2 .. Len(dec)
      BY <3>1, <2>2, <1>1, <1>3, <1>4
    <3>2. CASE i = Len(dec) + 1
      BY <3>2, <2>2, <1>1, <1>3, <1>4
    <3>3. CASE i = Len(dec) + 2
      BY <3>3, <2>2, <1>1, <1>3, <1>4
    <3>4. QED
      BY <3>1, <3>2, <3>3, <1>1, <1>4
  <2>5. QED
    BY <2>1, <2>3, <2>4, <1>5 DEF InStep
<1>8. TablesOK(tt, ll, dd, clean) /\ Len(dd) = Len(dec) + 2
  BY <1>1, <1>2, <1>3, <1>4, <1>6, <1>7 DEF TablesOK
<1>9. QED
  BY <1>8 DEF tt, ll, dd

LEMMA TablesInserted ==
    ASSUME NEW t, NEW l, NEW dec, NEW clean, NEW n \in Names, TablesOK(t, l, dec, clean),
           Len(dec) > 1
    PROVE  /\ TablesOK(insert(t, n), insert(l, n), insert(dec, n), clean)
           /\ Len(insert(dec, n)) = Len(dec)
<1> DEFINE tt == insert(t, n)
           ll == insert(l, n)
           dd == insert(dec, n)
<1>1. /\ Len(dec) \in 2 .. Len(t) /\ Len(t) \in Nat /\ Len(l) = Len(t)
      /\ t \in Seq(Scopes) /\ l \in Seq(Scopes) /\ dec \in Seq(Scopes)
  BY LenProperties DEF TablesOK
<1>2. /\ tt \in Seq(Scopes) /\ Len(tt) = Len(t) /\ tt[Len(t)] = t[Len(t)] \cup {n}
      /\ \A i \in 1 .. Len(t) - 1 : tt[i] = t[i]
  BY <1>1, Inserted
<1>3. /\ ll \in Seq(Scopes) /\ Len(ll) = Len(t) /\ ll[Len(t)] = l[Len(t)] \cup {n}
      /\ \A i \in 1 .. Len(t) - 1 : ll[i] = l[i]
  BY <1>1, Inserted
<1>4. /\ dd \in Seq(Scopes) /\ Len(dd) = Len(dec) /\ dd[Len(dec)] = dec[Len(dec)] \cup {n}
      /\ \A i \in 1 .. Len(dec) - 1 : dd[i] = dec[i]
  BY <1>1, Inserted
<1>5. clean => tt = dd
  BY DEF TablesOK, InStep
<1> HIDE DEF tt, ll, dd
<1> DEFINE below == Len(t) - Len(dec)
<1>b. /\ below \in Nat /\ Len(tt) - Len(dd) = below /\ Len(t) = below + Len(dec)
      /\ \A g \in dec[1] : \E i \in 1 .. below + 1 : g \in t[i]
      /\ \A j \in 2 .. Len(dec) : dec[j] \subseteq t[below + j]
  BY <1>1, <1>2, <1>4 DEF TablesOK, Kept
<1> HIDE DEF below
<1>6. Kept(tt, dd)
  <2>1. \A i \in 1 .. below + 1 : tt[i] = t[i]
    BY <1>1, <1>2, <1>b
  <2>2. dd[1] = dec[1]
    BY <1>1, <1>4
  <2>3. ASSUME NEW j \in 2 .. Len(dd)
        PROVE  dd[j] \subseteq tt[below + j]
    <3>1. CASE j \in 2 .. Len(dec) - 1
      BY <3>1, <1>1, <1>2, <1>4, <1>b
    <3>2. CASE j = Len(dec)
      BY <3>2, <1>1, <1>2, <1>4, <1>b
    <3>3. QED
      BY <3>1, <3>2, <1>1, <1>4
  <2>4. QED
    BY <2>1, <2>2, <2>3, <1>b DEF Kept
<1>7. clean => InStep(tt, ll, dd)
  <2>1. SUFFICES ASSUME clean PROVE InStep(tt, ll, dd)
    OBVIOUS
  <2>2. Len(l) = Len(dec) /\ l[1] = {} /\ \A i \in 2 .. Len(dec) : l[i] = dec[i]
    BY <2>1, <1>1 DEF TablesOK, InStep
  <2>3. ll[1] = {}
    BY <2>2, <1>1, <1>3
  <2>4. ASSUME NEW i \in 2 .. Len(dd)
        PROVE  ll[i] = dd[i]
    <3>1. CASE i \in 2 .. Len(dec) - 1
      BY <3>1, <2>2, <1>1, <1>3, <1>4
    <3>2. CASE i = Len(dec)
      BY <3>2, <2>2, <1>1, <1>3, <1>4
    <3>3. QED
      BY <3>1, <3>2, <1>1, <1>4
  <2>5. QED
    BY <2>1, <2>3, <2>4, <1>5 DEF InStep
<1>8. TablesOK(tt, ll, dd, clean) /\ Len(dd) = Len(dec)
  BY <1>1, <1>2, <1>3, <1>4, <1>6, <1>7 DEF TablesOK
<1>9. QED
  BY <1>8 DEF tt, ll, dd

LEMMA TablesDropped ==
    ASSUME NEW t, NEW l, NEW dec, NEW clean, NEW k \in Nat, TablesOK(t, l, dec, clean),
           k < Len(dec)
    PROVE  /\ TablesOK(Without(t, k), Without(l, k), Without(dec, k), clean)
           /\ Len(Without(dec, k)) = Len(dec) - k
<1> DEFINE tt == Without(t, k)
           ll == Without(l, k)
           dd == Without(dec, k)
<1>1. /\ Len(dec) \in 1 .. Len(t) /\ Len(t) \in Nat /\ Len(l) = Len(t) /\ k <= Len(t)
      /\ t \in Seq(Scopes) /\ l \in Seq(Scopes) /\ dec \in Seq(Scopes)
      /\ k < Len(dec) /\ k <= Len(dec)
  BY LenProperties DEF TablesOK
<1>2. /\ tt \in Seq(Scopes) /\ Len(tt) = Len(t) - k
      /\ \A i \in 1 .. Len(t) - k : tt[i] = t[i]
  BY <1>1, Dropped
<1>3. /\ ll \in Seq(Scopes) /\ Len(ll) = Len(t) - k
      /\ \A i \in 1 .. Len(t) - k : ll[i] = l[i]
  BY <1>1, Dropped
<1>4. /\ dd \in Seq(Scopes) /\ Len(dd) = Len(dec) - k
      /\ \A i \in 1 .. Len(dec) - k : dd[i] = dec[i]
  BY <1>1, Dropped
<1>5. clean => tt = dd
  BY DEF TablesOK, InStep
<1> HIDE DEF tt, ll, dd
<1> DEFINE below == Len(t) - Len(dec)
<1>b. /\ below \in Nat /\ Len(tt) - Len(dd) = below /\ Len(t) = below + Len(dec)
      /\ \A g \in dec[1] : \E i \in 1 .. below + 1 : g \in t[i]
      /\ \A j \in 2 .. Len(dec) : dec[j] \subseteq t[below + j]
  BY <1>1, <1>2, <1>4 DEF TablesOK, Kept
<1> HIDE DEF below
<1>6. Kept(tt, dd)
  <2>1. \A i \in 1 .. below + 1 : tt[i] = t[i]
    BY <1>1, <1>2, <1>b
  <2>2. dd[1] = dec[1]
    BY <1>1, <1>4
  <2>3. ASSUME NEW j \in 2 .. Len(dd)
        PROVE  dd[j] \subseteq tt[below + j]
    <3>1. CASE j \in 2 .. Len(dec) - k
      <4>1. below + j \in 1 .. Len(t) - k /\ j \in 1 .. Len(dec) - k /\ j \in 2 .. Len(dec)
        BY <3>1, <1>1, <1>b
      <4>2. tt[below + j] = t[below + j] /\ dd[j] = dec[j]
        BY <4>1, <1>2, <1>4
      <4>3. QED
        BY <4>1, <4>2, <1>b
    <3>2. QED
      BY <3>1, <1>1, <1>4
  <2>4. QED
    BY <2>1, <2>2, <2>3, <1>b DEF Kept
<1>7. clean => InStep(tt, ll, dd)
  <2>1. SUFFICES ASSUME clean PROVE InStep(tt, ll, dd)
    OBVIOUS
  <2>2. Len(l) = Len(dec) /\ l[1] = {} /\ \A i \in 2 .. Len(dec) : l[i] = dec[i]
    BY <2>1, <1>1 DEF TablesOK, InStep
  <2>3. ll[1] = {}
    <3>1. 1 \in 1 .. Len(t) - k
      BY <1>1
    <3>2. QED
      BY <3>1, <2>2, <1>3
  <2>4. ASSUME NEW i \in 2 .. Len(dd)
        PROVE  ll[i] = dd[i]
    <3>1. CASE i \in 2 .. Len(dec) - k
      BY <3>1, <2>2, <1>1, <1>3, <1>4
    <3>2. QED
      BY <3>1, <1>1, <1>4
  <2>5. QED
    BY <2>1, <2>3, <2>4, <1>5 DEF InStep
<1>8. TablesOK(tt, ll, dd, clean) /\ Len(dd) = Len(dec) - k
  BY <1>1, <1>2, <1>3, <1>4, <1>6, <1>7 DEF TablesOK
<1>9. QED
  BY <1>8 DEF tt, ll, dd

LEMMA ThreeScopes ==
    ASSUME NEW dec \in Seq(Scopes), NEW a \in Scopes, NEW b \in Scopes
    PROVE  Len(dec) = 1 => dec \o <<a, b>> = <<dec[1], a, b>>
<1>1. /\ dec \o <<a, b>> \in Seq(Scopes) /\ Len(dec \o <<a, b>>) = Len(dec) + 2
      /\ \A i \in 1 .. Len(dec) : (dec \o <<a, b>>)[i] = dec[i]
      /\ (dec \o <<a, b>>)[Len(dec) + 1] = a
      /\ (dec \o <<a, b>>)[Len(dec) + 2] = b
  BY EnteredTwo
<1>2. SUFFICES ASSUME Len(dec) = 1 PROVE dec \o <<a, b>> = <<dec[1], a, b>>
  OBVIOUS
<1>3. dec[1] \in Scopes /\ 1 \in 1 .. Len(dec)
  <2>1. 1 \in 1 .. Len(dec)
    BY <1>2
  <2>2. QED
    BY <2>1, ElementOfSeq
<1>4. /\ Len(dec \o <<a, b>>) = 3
      /\ (dec \o <<a, b>>)[1] = dec[1]
      /\ (dec \o <<a, b>>)[2] = a /\ (dec \o <<a, b>>)[3] = b
  BY <1>1, <1>2, <1>3
<1>5. <<dec[1], a, b>> \in Seq(Scopes) /\ Len(<<dec[1], a, b>>) = 3
  BY <1>3
<1>6. \A i \in 1 .. 3 : (dec \o <<a, b>>)[i] = <<dec[1], a, b>>[i]
  BY <1>4
<1>7. QED
  BY <1>1, <1>4, <1>5, <1>6, SeqEqual

LEMMA GlobalScope ==
    ASSUME NEW dec \in Seq(Scopes), NEW n \in Names, Len(dec) > 0
    PROVE  /\ [dec EXCEPT ![1] = @ \cup {n}] \in Seq(Scopes)
           /\ Len([dec EXCEPT ![1] = @ \cup {n}]) = Len(dec)
           /\ [dec EXCEPT ![1] = @ \cup {n}][1] = dec[1] \cup {n}
<1>1. 1 \in 1 .. Len(dec) /\ dec[1] \in Scopes
  BY LenProperties, ElementOfSeq
<1>2. dec[1] \cup {n} \in Scopes
  BY <1>1 DEF Scopes
<1>3. QED
  BY <1>1, <1>2, ExceptSeq

LEMMA TablesExited ==
    ASSUME NEW t, NEW l, NEW dec, NEW clean, TablesOK(t, l, dec, clean), Len(dec) > 1
    PROVE  /\ TablesOK(exit_scope(t), exit_scope(l), exit_scope(dec), clean)
           /\ Len(exit_scope(dec)) = Len(dec) - 1
<1>1. /\ t \in Seq(Scopes) /\ l \in Seq(Scopes) /\ dec \in Seq(Scopes)
      /\ Len(t) \in Nat /\ Len(t) > 1 /\ Len(l) = Len(t) /\ Len(dec) \in Nat
  BY LenProperties DEF TablesOK
<1>2. /\ exit_scope(t) = Without(t, 1) /\ exit_scope(l) = Without(l, 1)
      /\ exit_scope(dec) = Without(dec, 1)
  BY <1>1 DEF exit_scope, Front, Without
<1>3. /\ TablesOK(Without(t, 1), Without(l, 1), Without(dec, 1), clean)
      /\ Len(Without(dec, 1)) = Len(dec) - 1
  BY <1>1, TablesDropped
<1>4. QED
  BY <1>2, <1>3

\* The beginning of a function.
LEMMA TablesFirst ==
    ASSUME NEW t, NEW l, NEW dec, NEW clean, NEW a \in Scopes, NEW b \in Scopes,
           TablesOK(t, l, dec, clean), Len(dec) = 1
    PROVE  /\ TablesOK(t \o <<a, b>>, l \o <<a, b>>, <<dec[1], a, b>>, clean)
           /\ Len(<<dec[1], a, b>>) = 3
<1>1. dec \in Seq(Scopes) /\ dec = <<dec[1]>>
  BY DEF TablesOK
<1>2. dec \o <<a, b>> = <<dec[1], a, b>>
  BY <1>1, ThreeScopes
<1>3. QED
  BY <1>2, TablesEnteredTwo

\* Its end, where the scopes are closed.
LEMMA TablesLast ==
    ASSUME NEW t, NEW l, NEW dec, NEW clean, TablesOK(t, l, dec, clean), Len(dec) = 3
    PROVE  /\ TablesOK(exit_scope(exit_scope(t)), exit_scope(exit_scope(l)), <<dec[1]>>, clean)
           /\ Len(<<dec[1]>>) = 1
<1>1. /\ t \in Seq(Scopes) /\ l \in Seq(Scopes) /\ dec \in Seq(Scopes)
      /\ Len(t) \in Nat /\ Len(t) >= 3 /\ Len(l) = Len(t)
  BY LenProperties DEF TablesOK
<1>2. exit_scope(exit_scope(t)) = Without(t, 2)
  BY <1>1, LeavesTwo
<1>3. exit_scope(exit_scope(l)) = Without(l, 2)
  BY <1>1, LeavesTwo
<1>4. /\ Without(dec, 2) \in Seq(Scopes) /\ Len(Without(dec, 2)) = 1
      /\ Without(dec, 2)[1] = dec[1]
  <2>1. 2 <= Len(dec) /\ Len(dec) - 2 = 1 /\ 1 \in 1 .. Len(dec) - 2
    OBVIOUS
  <2>2. /\ Without(dec, 2) \in Seq(Scopes) /\ Len(Without(dec, 2)) = Len(dec) - 2
        /\ \A i \in 1 .. Len(dec) - 2 : Without(dec, 2)[i] = dec[i]
    BY <2>1, <1>1, Dropped
  <2>3. QED
    BY <2>1, <2>2
<1>5. Without(dec, 2) = <<dec[1]>>
  BY <1>4
<1>6. TablesOK(Without(t, 2), Without(l, 2), Without(dec, 2), clean)
  BY TablesDropped
<1>7. QED
  BY <1>2, <1>3, <1>5, <1>6

\* A global variable.
Declared(t, n) == IF lookup(t, n) THEN t ELSE insert(t, n)
WithGlobal(dec, n) == [dec EXCEPT ![1] = @ \cup {n}]

LEMMA TablesGlobal ==
    ASSUME NEW t, NEW l, NEW dec, NEW clean, NEW n \in Names, TablesOK(t, l, dec, clean),
           Len(dec) = 1
    PROVE  TablesOK(Declared(t, n), l, WithGlobal(dec, n), clean) /\ Len(WithGlobal(dec, n)) = 1
<1> DEFINE tt == IF lookup(t, n) THEN t ELSE insert(t, n)
           dd == [dec EXCEPT ![1] = @ \cup {n}]
<1>1. /\ t \in Seq(Scopes) /\ l \in Seq(Scopes) /\ dec \in Seq(Scopes)
      /\ Len(t) \in Nat /\ Len(t) >= 1 /\ Len(l) = Len(t) /\ DOMAIN t = 1 .. Len(t)
  BY LenProperties DEF TablesOK
<1>2. dec[1] \in Scopes /\ dec[1] \cup {n} \in Scopes
  BY <1>1, ElementOfSeq DEF Scopes
<1>3. dd \in Seq(Scopes) /\ Len(dd) = 1 /\ dd[1] = dec[1] \cup {n}
  BY <1>1, GlobalScope
<1>4. /\ insert(t, n) \in Seq(Scopes) /\ Len(insert(t, n)) = Len(t)
      /\ insert(t, n)[Len(t)] = t[Len(t)] \cup {n}
      /\ \A i \in 1 .. Len(t) - 1 : insert(t, n)[i] = t[i]
  BY <1>1, Inserted
<1>5. /\ tt \in Seq(Scopes) /\ Len(tt) = Len(t)
      /\ \A i \in 1 .. Len(t) : t[i] \subseteq tt[i]
  BY <1>1, <1>4
<1>6. \E i \in 1 .. Len(t) : n \in tt[i]
  <2>1. CASE lookup(t, n)
    BY <2>1, <1>1 DEF lookup
  <2>2. CASE ~lookup(t, n)
    BY <2>2, <1>1, <1>4
  <2>3. QED
    BY <2>1, <2>2
<1>7. \A m \in dec[1] : \E i \in 1 .. Len(t) : m \in t[i]
  BY <1>1 DEF TablesOK, Kept
<1>8. clean => tt = dd
  <2>1. SUFFICES ASSUME clean PROVE tt = dd
    OBVIOUS
  <2>2. t = dec /\ Len(t) = 1
    BY <2>1 DEF TablesOK, InStep
  <2>3. CASE lookup(t, n)
    <3>1. n \in dec[1]
      BY <2>2, <2>3, <1>1 DEF lookup
    <3>2. dd[1] = dec[1]
      BY <3>1, <1>3
    <3>3. dd = dec
      BY <3>2, <1>1, <1>3, SeqEqual
    <3>4. QED
      BY <3>3, <2>2, <2>3
  <2>4. CASE ~lookup(t, n)
    BY <2>2, <2>4 DEF insert
  <2>5. QED
    BY <2>3, <2>4
<1> HIDE DEF tt, dd
<1>9. Kept(tt, dd)
  BY <1>1, <1>3, <1>5, <1>6, <1>7 DEF Kept
<1>10. clean => InStep(tt, l, dd)
  BY <1>3, <1>8 DEF TablesOK, InStep
<1>11. TablesOK(tt, l, dd, clean) /\ Len(dd) = 1
  BY <1>1, <1>3, <1>5, <1>9, <1>10 DEF TablesOK
<1>12. QED
  BY <1>11 DEF tt, dd, Declared, WithGlobal

\* The parameters' scope is left open by an error of the definite return analysis.
LEMMA TablesLeft ==
    ASSUME NEW t, NEW l, NEW dec, NEW clean, TablesOK(t, l, dec, clean), Len(dec) > 1
    PROVE  TablesOK(exit_scope(t), exit_scope(l), <<dec[1]>>, FALSE)
<1>1. /\ t \in Seq(Scopes) /\ l \in Seq(Scopes) /\ dec \in Seq(Scopes)
      /\ Len(t) \in Nat /\ Len(t) > 1 /\ Len(l) = Len(t) /\ Len(dec) \in Nat
  BY LenProperties DEF TablesOK
<1>2. exit_scope(t) = Without(t, 1) /\ exit_scope(l) = Without(l, 1)
  BY <1>1 DEF exit_scope, Front, Without
<1>3. TablesOK(Without(t, 1), Without(l, 1), Without(dec, 1), clean)
  BY <1>1, TablesDropped
<1>4. Without(dec, 1)[1] = dec[1]
  <2>1. 1 <= Len(dec) /\ 1 \in 1 .. Len(dec) - 1
    BY <1>1
  <2>2. \A i \in 1 .. Len(dec) - 1 : Without(dec, 1)[i] = dec[i]
    BY <2>1, <1>1, Dropped
  <2>3. QED
    BY <2>1, <2>2
<1>5. QED
  BY <1>2, <1>3, <1>4, TablesFailed

\* Where the tables are those of C, so is what is found in them.
LEMMA TablesFind ==
    ASSUME NEW t, NEW l, NEW dec, NEW n, TablesOK(t, l, dec, TRUE)
    PROVE  /\ lookup(t, n) <=> lookup(dec, n)
           /\ lookup(l, n) <=> lookup(Tail(dec), n)
           /\ n \in dec[1] => lookup(dec, n)
           /\ Len(dec) = 1 => (lookup(dec, n) => n \in dec[1])
<1>1. /\ dec \in Seq(Scopes) /\ l \in Seq(Scopes) /\ Len(dec) \in Nat /\ Len(dec) >= 1
      /\ t = dec /\ Len(l) = Len(dec) /\ l[1] = {}
      /\ \A i \in 2 .. Len(dec) : l[i] = dec[i]
      /\ DOMAIN dec = 1 .. Len(dec) /\ DOMAIN l = 1 .. Len(dec)
  BY LenProperties DEF TablesOK, InStep
<1>2. /\ Tail(dec) \in Seq(Scopes) /\ Len(Tail(dec)) = Len(dec) - 1
      /\ \A i \in 1 .. Len(dec) - 1 : Tail(dec)[i] = dec[i + 1]
      /\ DOMAIN Tail(dec) = 1 .. Len(dec) - 1
  BY <1>1, HeadTailProperties, LenProperties
<1>3. lookup(l, n) => lookup(Tail(dec), n)
  <2>1. SUFFICES ASSUME lookup(l, n) PROVE lookup(Tail(dec), n)
    OBVIOUS
  <2>2. PICK i \in 1 .. Len(dec) : n \in l[i]
    BY <2>1, <1>1 DEF lookup
  <2>3. i \in 2 .. Len(dec)
    BY <2>2, <1>1
  <2>4. i - 1 \in 1 .. Len(dec) - 1 /\ Tail(dec)[i - 1] = dec[i]
    BY <2>3, <1>1, <1>2
  <2>5. QED
    BY <2>2, <2>3, <2>4, <1>1, <1>2 DEF lookup
<1>4. lookup(Tail(dec), n) => lookup(l, n)
  <2>1. SUFFICES ASSUME lookup(Tail(dec), n) PROVE lookup(l, n)
    OBVIOUS
  <2>2. PICK i \in 1 .. Len(dec) - 1 : n \in Tail(dec)[i]
    BY <2>1, <1>2 DEF lookup
  <2>3. i + 1 \in 2 .. Len(dec) /\ Tail(dec)[i] = dec[i + 1]
    BY <2>2, <1>1, <1>2
  <2>4. QED
    BY <2>2, <2>3, <1>1 DEF lookup
<1>5. QED
  BY <1>1, <1>3, <1>4 DEF lookup

\* What C has in scope is found.
LEMMA KeptFinds ==
    ASSUME NEW t, NEW l, NEW dec, NEW clean, NEW n, TablesOK(t, l, dec, clean),
           lookup(dec, n)
    PROVE  lookup(t, n)
<1>1. /\ Len(dec) \in 1 .. Len(t) /\ Len(t) \in Nat
      /\ DOMAIN dec = 1 .. Len(dec) /\ DOMAIN t = 1 .. Len(t)
  BY LenProperties DEF TablesOK
<1>2. PICK j \in 1 .. Len(dec) : n \in dec[j]
  BY <1>1 DEF lookup
<1>3. CASE j = 1
  <2>1. PICK i \in 1 .. (Len(t) - Len(dec)) + 1 : n \in t[i]
    BY <1>2, <1>3 DEF TablesOK, Kept
  <2>2. QED
    BY <2>1, <1>1 DEF lookup
<1>4. CASE j \in 2 .. Len(dec)
  <2>1. n \in t[(Len(t) - Len(dec)) + j]
    BY <1>2, <1>4 DEF TablesOK, Kept
  <2>2. (Len(t) - Len(dec)) + j \in 1 .. Len(t)
    BY <1>1, <1>4
  <2>3. QED
    BY <2>1, <2>2, <1>1 DEF lookup
<1>5. QED
  BY <1>1, <1>3, <1>4

-----------------------------------------------------------------------------
(* The open statements *)

LEMMA FramesDepth ==
    ASSUME NEW o, NEW d, NEW flag, NEW relied, NEW clean, FramesOK(o, d, flag, relied, clean)
    PROVE  /\ d \in Nat /\ Len(o) \in Nat \ {0} /\ DOMAIN o = 1 .. Len(o)
           /\ \A i \in 1 .. Len(o) : o[i] \in Frame
           /\ Len(o) = 1 => d = 2
<1>1. /\ o \in Seq(Frame) /\ Len(o) > 0 /\ Len(o) \in Nat /\ DOMAIN o = 1 .. Len(o)
  BY LenProperties DEF FramesOK
<1>2. PICK lev : Height(lev, o, d)
  BY DEF FramesOK, Balanced
<1>3. d \in Nat /\ (Len(o) = 1 => d = 2)
  BY <1>1, <1>2 DEF Height
<1>4. QED
  BY <1>1, <1>3, ElementOfSeq

Clean == errors = {}

\* The body of a function.
LEMMA FramesFirst ==
    ASSUME NEW relied, NEW s \in Frame, s.kind = "block", ~s.certain, ~s.thenCertain,
           in_unsafe \in BOOLEAN, s.prev_unsafe = in_unsafe, Clean => ~in_unsafe
    PROVE  FramesOK(<<s>>, 2, in_unsafe, relied, Clean)
<1> DEFINE lev == [i \in Nat |-> 2]
<1>1. s \in Frame /\ s.kind = "block"
  OBVIOUS
<1> DEFINE o == <<s>>
<1>2. o \in Seq(Frame) /\ Len(o) = 1 /\ o[1] = s
  BY <1>1
<1> HIDE DEF o
<1>3. Height(lev, o, 2)
  BY <1>2 DEF Height
<1>4. Balanced(o, 2)
  BY <1>3 DEF Balanced
<1>5. Flow(o, relied)
  BY <1>1, <1>2 DEF Flow, FrameFlow
<1>6. Clean => FlagOK(o, in_unsafe)
  <2>1. ~UnsafeIn(o, 1) /\ ~UnsafeIn(o, 0)
    BY <1>1, <1>2 DEF UnsafeIn
  <2>2. \A i \in 1 .. Len(o) : i = 1 /\ i - 1 = 0
    BY <1>2
  <2>3. QED
    BY <2>1, <2>2, <1>1, <1>2 DEF FlagOK
<1>7. FramesOK(o, 2, in_unsafe, relied, Clean)
  BY <1>1, <1>2, <1>4, <1>5, <1>6 DEF FramesOK
<1>8. QED
  BY <1>7 DEF o

\* The innermost statement gets on, or its else begins.
LEMMA FramesSet ==
    ASSUME NEW o, NEW d, NEW flag, NEW relied, NEW clean, FramesOK(o, d, flag, relied, clean),
           NEW s \in Frame,
           ScopesOf(s) = ScopesOf(o[Len(o)]),
           s.kind = "unsafe" <=> o[Len(o)].kind = "unsafe",
           Len(o) = 1 => s.kind = "block",
           s.prev_unsafe = o[Len(o)].prev_unsafe,
           FrameFlow(s, relied),
           Len(o) > 1 /\ (s.reached \/ s.thenReached) => o[Len(o) - 1].reached
    PROVE  FramesOK([o EXCEPT ![Len(o)] = s], d, flag, relied, clean)
<1> DEFINE oo == [o EXCEPT ![Len(o)] = s]
           m == Len(o)
<1>1. /\ o \in Seq(Frame) /\ m \in Nat \ {0} /\ DOMAIN o = 1 .. m
      /\ \A i \in 1 .. m : o[i] \in Frame
  BY FramesDepth DEF FramesOK
<1>2. /\ oo \in Seq(Frame) /\ Len(oo) = m /\ oo[m] = s
      /\ \A i \in 1 .. m - 1 : oo[i] = o[i]
  BY <1>1, ExceptSeq
<1>3. o[1].kind = "block"
  BY DEF FramesOK
<1> HIDE DEF oo
<1>4. oo[1].kind = "block"
  BY <1>1, <1>2, <1>3
<1>5. Balanced(oo, d)
  <2>1. PICK lev : Height(lev, o, d)
    BY DEF FramesOK, Balanced
  <2>2. \A i \in 1 .. m : ScopesOf(oo[i]) = ScopesOf(o[i])
    BY <1>1, <1>2
  <2>3. \A k \in 2 .. m : lev[k] = lev[k - 1] + ScopesOf(oo[k])
    <3>1. \A k \in 2 .. m : k \in 1 .. m
      BY <1>1
    <3>2. QED
      BY <2>1, <2>2, <3>1 DEF Height
  <2>4. Height(lev, oo, d)
    BY <2>1, <2>3, <1>2 DEF Height
  <2>5. QED
    BY <2>4 DEF Balanced
<1>6. Flow(oo, relied)
  <2>1. Flow(o, relied)
    BY DEF FramesOK
  <2>2. ASSUME NEW i \in 1 .. m PROVE FrameFlow(oo[i], relied)
    BY <2>1, <1>1, <1>2 DEF Flow
  <2>3. ASSUME NEW i \in 2 .. m, oo[i].reached \/ oo[i].thenReached PROVE oo[i - 1].reached
    <3>1. i - 1 \in 1 .. m - 1 /\ oo[i - 1] = o[i - 1]
      BY <1>1, <1>2
    <3>2. CASE i = m
      BY <2>3, <3>1, <3>2, <1>1, <1>2
    <3>3. CASE i # m
      BY <2>1, <2>3, <3>1, <3>3, <1>1, <1>2 DEF Flow
    <3>4. QED
      BY <3>2, <3>3
  <2>4. QED
    BY <2>2, <2>3, <1>2 DEF Flow
<1>7. clean => FlagOK(oo, flag)
  <2>1. \A i \in 1 .. m : /\ oo[i].kind = "unsafe" <=> o[i].kind = "unsafe"
                          /\ oo[i].prev_unsafe = o[i].prev_unsafe
    BY <1>1, <1>2
  <2>2. \A i \in 0 .. m : UnsafeIn(oo, i) = UnsafeIn(o, i)
    BY <2>1, <1>1 DEF UnsafeIn
  <2>3. \A i \in 1 .. m : i - 1 \in 0 .. m
    BY <1>1
  <2>4. SUFFICES ASSUME FlagOK(o, flag) PROVE FlagOK(oo, flag)
    BY DEF FramesOK
  <2>5. flag <=> UnsafeIn(oo, m)
    BY <2>2, <2>4, <1>1 DEF FlagOK
  <2>6. \A i \in 1 .. m : oo[i].prev_unsafe <=> UnsafeIn(oo, i - 1)
    BY <2>1, <2>2, <2>3, <2>4 DEF FlagOK
  <2>7. QED
    BY <2>5, <2>6, <1>2 DEF FlagOK
<1>8. FramesOK(oo, d, flag, relied, clean)
  BY <1>1, <1>2, <1>4, <1>5, <1>6, <1>7 DEF FramesOK
<1>9. QED
  BY <1>8 DEF oo

\* A statement with a body begins.
LEMMA FramesPushed ==
    ASSUME NEW o, NEW d, NEW flag, NEW relied, NEW clean, FramesOK(o, d, flag, relied, clean),
           NEW s \in Frame, NEW newFlag,
           ~s.certain, ~s.thenCertain, ~s.thenReached,
           s.reached => o[Len(o)].reached,
           s.prev_unsafe <=> flag,
           newFlag <=> flag \/ s.kind = "unsafe"
    PROVE  FramesOK(Append(o, s), d + ScopesOf(s), newFlag, relied, clean)
<1> DEFINE oo == Append(o, s)
           m == Len(o)
<1>1. /\ o \in Seq(Frame) /\ m \in Nat \ {0} /\ DOMAIN o = 1 .. m /\ d \in Nat
      /\ \A i \in 1 .. m : o[i] \in Frame
  BY FramesDepth DEF FramesOK
<1>2. /\ oo \in Seq(Frame) /\ Len(oo) = m + 1 /\ oo[m + 1] = s
      /\ \A i \in 1 .. m : oo[i] = o[i]
  BY <1>1, Entered
<1>3. o[1].kind = "block"
  BY DEF FramesOK
<1> HIDE DEF oo
<1>4. oo[1].kind = "block"
  BY <1>1, <1>2, <1>3
<1>5. Balanced(oo, d + ScopesOf(s))
  <2>1. PICK lev : Height(lev, o, d)
    BY DEF FramesOK, Balanced
  <2>2. ScopesOf(s) \in Nat
    BY DEF ScopesOf
  <2> DEFINE levs == [lev EXCEPT ![m + 1] = d + ScopesOf(s)]
  <2>3. /\ levs \in [Nat -> Nat] /\ levs[m + 1] = d + ScopesOf(s)
        /\ \A i \in 1 .. m : levs[i] = lev[i]
    <3>1. d + ScopesOf(s) \in Nat /\ m + 1 \in Nat
      BY <2>2, <1>1
    <3>2. lev \in [Nat -> Nat]
      BY <2>1 DEF Height
    <3>3. \A i \in 1 .. m : i \in Nat /\ i # m + 1
      BY <1>1
    <3>4. QED
      BY <3>1, <3>2, <3>3
  <2> HIDE DEF levs
  <2>4. levs[1] = 2 /\ lev[m] = d
    BY <2>1, <2>3, <1>1 DEF Height
  <2>5. ASSUME NEW k \in 2 .. m + 1 PROVE levs[k] = levs[k - 1] + ScopesOf(oo[k])
    <3>1. k - 1 \in 1 .. m /\ levs[k - 1] = lev[k - 1]
      BY <2>3, <1>1
    <3>2. CASE k = m + 1
      <4>1. k - 1 = m /\ levs[k - 1] = d
        BY <3>1, <3>2, <2>4, <1>1
      <4>2. QED
        BY <4>1, <3>2, <2>3, <1>2
    <3>3. CASE k \in 2 .. m
      <4>1. levs[k] = lev[k] /\ oo[k] = o[k]
        <5>1. k \in 1 .. m
          BY <3>3
        <5>2. QED
          BY <5>1, <2>3, <1>2
      <4>2. QED
        BY <4>1, <3>1, <3>3, <2>1 DEF Height
    <3>4. QED
      BY <3>2, <3>3, <1>1
  <2>6. Height(levs, oo, d + ScopesOf(s))
    BY <2>3, <2>4, <2>5, <1>2 DEF Height
  <2>7. QED
    BY <2>6 DEF Balanced
<1>6. Flow(oo, relied)
  <2>1. Flow(o, relied)
    BY DEF FramesOK
  <2>2. ASSUME NEW i \in 1 .. m + 1 PROVE FrameFlow(oo[i], relied)
    <3>1. CASE i = m + 1
      BY <3>1, <1>2 DEF FrameFlow
    <3>2. CASE i \in 1 .. m
      BY <3>2, <2>1, <1>2 DEF Flow
    <3>3. QED
      BY <3>1, <3>2, <1>1
  <2>3. ASSUME NEW i \in 2 .. m + 1, oo[i].reached \/ oo[i].thenReached
        PROVE  oo[i - 1].reached
    <3>1. i - 1 \in 1 .. m /\ oo[i - 1] = o[i - 1]
      BY <1>1, <1>2
    <3>2. CASE i = m + 1
      BY <2>3, <3>1, <3>2, <1>1, <1>2
    <3>3. CASE i \in 2 .. m
      BY <2>1, <2>3, <3>1, <3>3, <1>1, <1>2 DEF Flow
    <3>4. QED
      BY <3>2, <3>3, <1>1
  <2>4. QED
    BY <2>2, <2>3, <1>2 DEF Flow
<1>7. clean => FlagOK(oo, newFlag)
  <2>1. SUFFICES ASSUME FlagOK(o, flag) PROVE FlagOK(oo, newFlag)
    BY DEF FramesOK
  <2>2. \A i \in 0 .. m : UnsafeIn(oo, i) <=> UnsafeIn(o, i)
    BY <1>1, <1>2 DEF UnsafeIn
  <2>3. UnsafeIn(oo, m + 1) <=> UnsafeIn(oo, m) \/ s.kind = "unsafe"
    BY <1>1, <1>2 DEF UnsafeIn
  <2>4. m \in 0 .. m /\ (UnsafeIn(oo, m) <=> flag)
    BY <2>1, <2>2, <1>1 DEF FlagOK
  <2>5. newFlag <=> UnsafeIn(oo, m + 1)
    BY <2>3, <2>4
  <2>6. ASSUME NEW i \in 1 .. m + 1 PROVE oo[i].prev_unsafe <=> UnsafeIn(oo, i - 1)
    <3>1. CASE i = m + 1
      BY <3>1, <2>4, <1>1, <1>2
    <3>2. CASE i \in 1 .. m
      <4>1. i - 1 \in 0 .. m /\ oo[i] = o[i]
        BY <3>2, <1>1, <1>2
      <4>2. QED
        BY <4>1, <3>2, <2>1, <2>2 DEF FlagOK
    <3>3. QED
      BY <3>1, <3>2, <1>1
  <2>7. QED
    BY <2>5, <2>6, <1>2 DEF FlagOK
<1>8. FramesOK(oo, d + ScopesOf(s), newFlag, relied, clean)
  BY <1>1, <1>2, <1>4, <1>5, <1>6, <1>7 DEF FramesOK
<1>9. QED
  BY <1>8 DEF oo

LEMMA InnerTwo ==
    ASSUME NEW S, NEW o \in Seq(S), Len(o) > 1
    PROVE  /\ Front(Front(o)) \in Seq(S)
           /\ Len(Front(Front(o))) = Len(o) - 2
           /\ \A i \in 1 .. Len(o) - 2 : Front(Front(o))[i] = o[i]
<1>1. Len(o) \in Nat /\ 1 <= Len(o)
  BY LenProperties
<1>2. /\ Front(o) \in Seq(S) /\ Len(Front(o)) = Len(o) - 1
      /\ \A i \in 1 .. Len(o) - 1 : Front(o)[i] = o[i]
  BY <1>1, FrontOf
<1>3. /\ Front(Front(o)) \in Seq(S) /\ Len(Front(Front(o))) = Len(Front(o)) - 1
      /\ \A i \in 1 .. Len(Front(o)) - 1 : Front(Front(o))[i] = Front(o)[i]
  BY <1>1, <1>2, FrontOf
<1>4. QED
  BY <1>1, <1>2, <1>3

\* A statement with a body ends.
LEMMA FramesPopped ==
    ASSUME NEW o, NEW d, NEW flag, NEW relied, NEW clean, FramesOK(o, d, flag, relied, clean),
           Len(o) > 1, NEW newFlag, NEW newRelied,
           newFlag <=> IF o[Len(o)].kind = "unsafe" THEN o[Len(o)].prev_unsafe ELSE flag,
           newRelied <=> \/ relied
                         \/ /\ o[Len(o)].kind \in {"while", "for", "switch"}
                            /\ o[Len(o)].certain
    PROVE  /\ FramesOK(Append(Front(Front(o)),
                           [o[Len(o) - 1] EXCEPT !.certain = @ \/ check_definite_return(o[Len(o)]),
                                                 !.reached = Passed(o[Len(o)], @)]),
                       d - ScopesOf(o[Len(o)]), newFlag, newRelied, clean)
           /\ ScopesOf(o[Len(o)]) < d
<1> DEFINE m == Len(o)
           s == o[m]
           outer == o[m - 1]
           now == [outer EXCEPT !.certain = @ \/ check_definite_return(s),
                                !.reached = Passed(s, @)]
           oo == Append(Front(Front(o)), now)
<1>1. /\ o \in Seq(Frame) /\ m \in Nat \ {0, 1} /\ DOMAIN o = 1 .. m /\ d \in Nat
      /\ \A i \in 1 .. m : o[i] \in Frame
      /\ s \in Frame /\ outer \in Frame
  <2>1. /\ o \in Seq(Frame) /\ m \in Nat \ {0, 1} /\ DOMAIN o = 1 .. m /\ d \in Nat
        /\ \A i \in 1 .. m : o[i] \in Frame
    BY FramesDepth DEF FramesOK
  <2>2. m \in 1 .. m /\ m - 1 \in 1 .. m
    BY <2>1
  <2>3. QED
    BY <2>1, <2>2
<1>1a. m \in Nat /\ m > 1
  BY <1>1
<1>2. /\ now \in Frame
      /\ now.certain = (outer.certain \/ check_definite_return(s))
      /\ now.reached = Passed(s, outer.reached)
      /\ now.kind = outer.kind /\ now.prev_unsafe = outer.prev_unsafe
      /\ now.thenCertain = outer.thenCertain /\ now.thenReached = outer.thenReached
  <2>1. check_definite_return(s) \in BOOLEAN /\ Passed(s, outer.reached) \in BOOLEAN
    BY <1>1 DEF check_definite_return, Passed, Frame
  <2>2. QED
    BY <2>1, <1>1 DEF Frame
<1>3. /\ oo \in Seq(Frame) /\ Len(oo) = m - 1 /\ oo[m - 1] = now
      /\ \A i \in 1 .. m - 2 : oo[i] = o[i]
  <2>1. /\ Front(Front(o)) \in Seq(Frame) /\ Len(Front(Front(o))) = m - 2
        /\ \A i \in 1 .. m - 2 : Front(Front(o))[i] = o[i]
    BY <1>1, InnerTwo
  <2>2. /\ oo \in Seq(Frame) /\ Len(oo) = (m - 2) + 1 /\ oo[(m - 2) + 1] = now
        /\ \A i \in 1 .. m - 2 : oo[i] = Front(Front(o))[i]
    BY <2>1, <1>2, Entered
  <2>3. (m - 2) + 1 = m - 1
    BY <1>1
  <2>4. QED
    BY <2>1, <2>2, <2>3
<1>4. o[1].kind = "block" /\ Flow(o, relied)
  BY DEF FramesOK
<1> HIDE DEF oo, now, s, outer
<1>5. oo[1].kind = "block"
  <2>1. CASE m = 2
    BY <2>1, <1>2, <1>3, <1>4 DEF outer
  <2>2. CASE m > 2
    BY <2>2, <1>1, <1>3, <1>4
  <2>3. QED
    BY <2>1, <2>2, <1>1
<1>6. /\ Balanced(oo, d - ScopesOf(s)) /\ ScopesOf(s) < d
  <2>1. PICK lev : Height(lev, o, d)
    BY DEF FramesOK, Balanced
  <2>2. /\ lev \in [Nat -> Nat] /\ lev[1] = 2 /\ lev[m] = d
        /\ lev[m] = lev[m - 1] + ScopesOf(s)
        /\ \A k \in 2 .. m : lev[k] = lev[k - 1] + ScopesOf(o[k])
    <3>1. m \in 2 .. Len(o)
      BY <1>1
    <3>2. QED
      BY <2>1, <3>1 DEF Height, s
  <2>3. ScopesOf(s) \in Nat /\ lev[m - 1] \in Nat
    BY <2>2, <1>1 DEF ScopesOf
  <2>4. lev[m - 1] = d - ScopesOf(s)
    BY <2>2, <2>3
  <2>5. \A i \in 1 .. m - 1 : oo[i].kind = o[i].kind
    BY <1>1, <1>2, <1>3 DEF outer
  <2>6. ASSUME NEW k \in 2 .. m - 1 PROVE lev[k] = lev[k - 1] + ScopesOf(oo[k])
    <3>1. k \in 2 .. m /\ k \in 1 .. m - 1
      BY <1>1
    <3>2. QED
      BY <3>1, <2>2, <2>5 DEF ScopesOf
  <2>7. Height(lev, oo, d - ScopesOf(s))
    BY <2>2, <2>4, <2>6, <1>3 DEF Height
  <2>8. lev[m - 1] > 0
    <3>1. CASE m = 2
      BY <3>1, <2>2
    <3>2. CASE m > 2
      <4>1. m - 1 \in 2 .. m /\ (m - 1) - 1 \in Nat
        BY <3>2, <1>1
      <4>2. lev[m - 1] = lev[(m - 1) - 1] + ScopesOf(o[m - 1]) /\ lev[(m - 1) - 1] \in Nat
        BY <4>1, <2>2
      <4>3. ScopesOf(o[m - 1]) \in {1, 2}
        BY DEF ScopesOf
      <4>4. QED
        BY <4>2, <4>3
    <3>3. QED
      BY <3>1, <3>2, <1>1
  <2>9. QED
    BY <2>3, <2>4, <2>7, <2>8, <1>1 DEF Balanced
<1>7. Flow(oo, newRelied)
  <2>1. /\ \A i \in 1 .. m : FrameFlow(o[i], relied)
        /\ \A i \in 2 .. m : o[i].reached \/ o[i].thenReached => o[i - 1].reached
    BY <1>4 DEF Flow
  <2>2. /\ FrameFlow(s, relied) /\ FrameFlow(outer, relied)
        /\ s.reached \/ s.thenReached => outer.reached
    BY <2>1, <1>1 DEF s, outer
  <2>3. FrameFlow(now, newRelied)
    <3>1. SUFFICES ASSUME ~newRelied
                   PROVE  ~(now.certain /\ now.reached) /\ ~(now.thenCertain /\ now.thenReached)
      BY DEF FrameFlow
    <3>2. ~relied /\ (s.kind \in {"while", "for", "switch"} => ~s.certain)
      BY <3>1 DEF s
    <3>3. /\ ~(s.certain /\ s.reached) /\ ~(s.thenCertain /\ s.thenReached)
          /\ ~(outer.certain /\ outer.reached) /\ ~(outer.thenCertain /\ outer.thenReached)
      BY <2>2, <3>2 DEF FrameFlow
    <3>4. check_definite_return(s) => ~Passed(s, outer.reached)
      BY <3>2, <3>3, <2>2, <1>1 DEF check_definite_return, Passed, Frame
    <3>5. ~outer.reached => ~Passed(s, outer.reached)
      BY <2>2 DEF Passed
    <3>6. QED
      BY <3>3, <3>4, <3>5, <1>2
  <2>4. ASSUME NEW i \in 1 .. m - 1 PROVE FrameFlow(oo[i], newRelied)
    <3>1. CASE i = m - 1
      BY <3>1, <2>3, <1>3
    <3>2. CASE i \in 1 .. m - 2
      BY <3>2, <2>1, <1>1, <1>3 DEF FrameFlow
    <3>3. i = m - 1 \/ i \in 1 .. m - 2
      BY <1>1a
    <3>4. QED
      BY <3>1, <3>2, <3>3
  <2>5. now.reached \/ now.thenReached => outer.reached \/ outer.thenReached
    BY <2>2, <1>1, <1>2 DEF Passed, Frame
  <2>6. ASSUME NEW i \in 2 .. m - 1, oo[i].reached \/ oo[i].thenReached
        PROVE  oo[i - 1].reached
    <3>1. /\ i - 1 \in 1 .. m - 2 /\ oo[i - 1] = o[i - 1] /\ i \in 2 .. m
      BY <1>1, <1>3
    <3>2. CASE i = m - 1
      BY <2>5, <2>6, <3>1, <3>2, <2>1, <1>3 DEF outer
    <3>3. CASE i \in 2 .. m - 2
      BY <2>1, <2>6, <3>1, <3>3, <1>1, <1>3
    <3>4. i = m - 1 \/ i \in 2 .. m - 2
      BY <1>1a
    <3>5. QED
      BY <3>2, <3>3, <3>4
  <2>7. QED
    BY <2>4, <2>6, <1>3 DEF Flow
<1>8. clean => FlagOK(oo, newFlag)
  <2>1. SUFFICES ASSUME FlagOK(o, flag) PROVE FlagOK(oo, newFlag)
    BY DEF FramesOK
  <2>2. \A i \in 1 .. m - 1 : /\ oo[i].kind = o[i].kind
                              /\ oo[i].prev_unsafe = o[i].prev_unsafe
    <3>1. \A i \in 1 .. m - 1 : i = m - 1 \/ i \in 1 .. m - 2
      BY <1>1a
    <3>2. QED
      BY <3>1, <1>2, <1>3 DEF outer
  <2>3. \A i \in 0 .. m - 1 : UnsafeIn(oo, i) <=> UnsafeIn(o, i)
    BY <2>2, <1>1 DEF UnsafeIn
  <2>4. UnsafeIn(o, m) <=> UnsafeIn(o, m - 1) \/ s.kind = "unsafe"
    BY <1>1 DEF UnsafeIn, s
  <2>5. /\ flag <=> UnsafeIn(o, m)
        /\ s.prev_unsafe <=> UnsafeIn(o, m - 1)
    BY <2>1, <1>1 DEF FlagOK, s
  <2>6. m - 1 \in 0 .. m - 1
    BY <1>1
  <2>7. newFlag <=> UnsafeIn(oo, m - 1)
    BY <2>3, <2>4, <2>5, <2>6 DEF s
  <2>8. ASSUME NEW i \in 1 .. m - 1 PROVE oo[i].prev_unsafe <=> UnsafeIn(oo, i - 1)
    <3>1. i - 1 \in 0 .. m - 1 /\ i \in 1 .. m
      BY <1>1
    <3>2. QED
      BY <3>1, <2>1, <2>2, <2>3 DEF FlagOK
  <2>9. QED
    BY <2>7, <2>8, <1>3 DEF FlagOK
<1>9. FramesOK(oo, d - ScopesOf(s), newFlag, newRelied, clean)
  BY <1>1, <1>3, <1>5, <1>6, <1>7, <1>8 DEF FramesOK
<1>10. QED
  BY <1>6, <1>9 DEF oo, now, s, outer

LEMMA DepthPositive ==
    ASSUME NEW o, NEW d, NEW flag, NEW relied, NEW clean, FramesOK(o, d, flag, relied, clean)
    PROVE  d > 0
<1>1. d \in Nat /\ Len(o) \in Nat \ {0} /\ (Len(o) = 1 => d = 2)
  BY FramesDepth
<1>2. CASE Len(o) > 1
  <2>1. ScopesOf(o[Len(o)]) < d
    BY <1>2, FramesPopped
  <2>2. ScopesOf(o[Len(o)]) \in {1, 2}
    BY DEF ScopesOf
  <2>3. QED
    BY <2>1, <2>2, <1>1
<1>3. CASE Len(o) = 1
  BY <1>1, <1>3
<1>4. Len(o) = 1 \/ Len(o) > 1
  <2>1. \A m \in Nat \ {0} : m = 1 \/ m > 1
    OBVIOUS
  <2>2. QED
    BY <2>1, <1>1, Zenon
<1>5. QED
  BY <1>2, <1>3, <1>4, Zenon

-----------------------------------------------------------------------------
(* The walk *)

LEMMA ItemIs ==
    ASSUME TypeOK
    PROVE  <<"function", function>> \in Items /\ <<"global", stmts>> \in Items
BY DEF TypeOK, Items

\* The walk goes on in the function, and what C forbids in it was not new.
LEMMA GoesOn ==
    ASSUME WalkInv, phase = "body", GoOn, UNCHANGED fallsOff, stmts' \in Nat,
           in_unsafe' \in BOOLEAN, loopReturn' \in BOOLEAN,
           TablesOK(variables', local_vars', declared', Clean),
           FramesOK(open', scope_depth', in_unsafe', loopReturn', Clean),
           Len(declared') = scope_depth' + 1,
           NEW illegal \in BOOLEAN, Forbid(illegal), errors = {} => ~illegal
    PROVE  WalkInv'
<1>1. TypeOK
  BY DEF WalkInv
<1>2. Clean' = Clean /\ phase' = "body" /\ errors' = errors /\ function' = function
      /\ returnsValue' = returnsValue
  BY DEF GoOn, Clean
<1>3. scope_depth' \in Nat /\ open' \in Seq(Frame)
  BY FramesDepth DEF FramesOK
<1>4. wrong' \subseteq Items
  BY <1>1, ItemIs DEF Forbid, TypeOK
<1>5. variables' \in Seq(Scopes) /\ local_vars' \in Seq(Scopes) /\ declared' \in Seq(Scopes)
  BY DEF TablesOK
<1>6. TypeOK'
  BY <1>1, <1>2, <1>3, <1>4, <1>5 DEF TypeOK, Scopes
<1>7. InFunction'
  BY <1>2 DEF InFunction, Clean
<1>8. TablesOK(variables, local_vars, declared, errors = {})'
  BY <1>2 DEF Clean
<1>9. SameVerdict'
  BY <1>2 DEF WalkInv, SameVerdict, Forbid
<1>10. QED
  BY <1>2, <1>6, <1>7, <1>8, <1>9 DEF WalkInv

\* The walk leaves the function with an error, which C has for it as well unless there was
\* one before.
LEMMA Fails ==
    ASSUME WalkInv, phase = "body", Fail, UNCHANGED <<fallsOff, loopReturn>>, stmts' \in Nat,
           NEW illegal \in BOOLEAN, Forbid(illegal), errors = {} => illegal
    PROVE  WalkInv'
<1>1. TypeOK /\ TablesOK(variables, local_vars, declared, Clean) /\ SameVerdict
  BY DEF WalkInv, Clean
<1>2. /\ errors' = errors \cup {<<"function", function>>} /\ phase' = "toplevel"
      /\ open' = <<>> /\ declared' = <<declared[1]>>
      /\ variables' = variables /\ local_vars' = local_vars /\ scope_depth' = scope_depth
      /\ in_unsafe' = in_unsafe /\ function' = function /\ returnsValue' = returnsValue
  BY DEF Fail, tables
<1>3. errors' # {} /\ errors' \subseteq Items /\ wrong' \subseteq Items
  BY <1>1, <1>2, ItemIs DEF Forbid, TypeOK
<1>4. TablesOK(variables', local_vars', declared', FALSE) /\ Len(declared') = 1
  BY <1>1, <1>2, TablesFailed
<1>5. TablesOK(variables, local_vars, declared, errors = {})'
  BY <1>3, <1>4 DEF TablesOK
<1>6. /\ variables' \in Seq(Scopes) /\ local_vars' \in Seq(Scopes)
      /\ declared' \in Seq(Scopes) /\ open' \in Seq(Frame)
  BY <1>2, <1>4 DEF TablesOK
<1>7. TypeOK'
  BY <1>1, <1>2, <1>3, <1>6 DEF TypeOK, Scopes
<1>8. BetweenFunctions'
  BY <1>3, <1>4 DEF BetweenFunctions
<1>9. wrong' # {}
  BY <1>1 DEF Forbid, SameVerdict
<1>10. SameVerdict'
  BY <1>3, <1>9 DEF SameVerdict
<1>11. QED
  BY <1>2, <1>5, <1>7, <1>8, <1>10 DEF WalkInv

\* In a statement.
LEMMA Inside ==
    ASSUME WalkInv, phase = "body"
    PROVE  /\ TablesOK(variables, local_vars, declared, Clean)
           /\ FramesOK(open, scope_depth, in_unsafe, loopReturn, Clean)
           /\ Len(declared) = scope_depth + 1
           /\ Len(open) \in Nat \ {0} /\ scope_depth \in Nat
           /\ Top \in Frame /\ Top = open[Len(open)]
           /\ in_unsafe \in BOOLEAN /\ loopReturn \in BOOLEAN /\ stmts \in Nat
           /\ returnsValue \in BOOLEAN
<1>1. /\ TablesOK(variables, local_vars, declared, Clean)
      /\ FramesOK(open, scope_depth, in_unsafe, loopReturn, Clean)
      /\ Len(declared) = scope_depth + 1
  BY DEF WalkInv, InFunction, Clean
<1>2. /\ Len(open) \in Nat \ {0} /\ scope_depth \in Nat
      /\ \A i \in 1 .. Len(open) : open[i] \in Frame
  BY <1>1, FramesDepth
<1>3. Top = open[Len(open)] /\ Len(open) \in 1 .. Len(open)
  BY <1>2 DEF Top, Last
<1>4. QED
  BY <1>1, <1>2, <1>3 DEF WalkInv, TypeOK

LEMMA StatementInv ==
    ASSUME WalkInv, Statement
    PROVE  phase = "body" /\ stmts' \in Nat
BY DEF Statement, WalkInv, TypeOK

LEMMA Allowed ==
    ASSUME UNCHANGED wrong
    PROVE  Forbid(FALSE)
BY DEF Forbid

-----------------------------------------------------------------------------
(* Statements without a body *)

LEMMA DeclInv ==
    ASSUME WalkInv, NEW n \in Names, Decl(n)
    PROVE  WalkInv'
<1>1. phase = "body" /\ stmts' \in Nat
  BY StatementInv DEF Decl
<1>2. /\ variables' = insert(variables, n) /\ local_vars' = insert(local_vars, n)
      /\ declared' = insert(declared, n) /\ GoOn /\ Forbid(FALSE)
      /\ scope_depth' = scope_depth /\ in_unsafe' = in_unsafe /\ open' = open
      /\ fallsOff' = fallsOff /\ loopReturn' = loopReturn
  BY Allowed DEF Decl
<1>3. /\ TablesOK(variables, local_vars, declared, Clean)
      /\ FramesOK(open, scope_depth, in_unsafe, loopReturn, Clean)
      /\ Len(declared) = scope_depth + 1 /\ scope_depth \in Nat
      /\ in_unsafe \in BOOLEAN /\ loopReturn \in BOOLEAN
  BY <1>1, Inside
<1>4. Len(declared) > 1
  <2>1. scope_depth > 0
    BY <1>3, DepthPositive
  <2>2. QED
    BY <2>1, <1>3
<1>5. TablesOK(variables', local_vars', declared', Clean) /\ Len(declared') = Len(declared)
  BY <1>2, <1>3, <1>4, TablesInserted
<1>6. FramesOK(open', scope_depth', in_unsafe', loopReturn', Clean)
  BY <1>2, <1>3
<1>7. QED
  BY <1>1, <1>2, <1>3, <1>5, <1>6, GoesOn

LEMMA UseInv ==
    ASSUME WalkInv, NEW n \in Names, Use(n)
    PROVE  WalkInv'
<1> DEFINE found == lookup(variables, n)
           illegal == ~lookup(declared, n)
<1>1. phase = "body" /\ stmts' \in Nat
  BY StatementInv DEF Use
<1>2. /\ IF found THEN GoOn /\ UNCHANGED <<tables, open, declared>> ELSE Fail
      /\ Forbid(illegal) /\ UNCHANGED <<fallsOff, loopReturn>>
  BY DEF Use
<1>3. /\ TablesOK(variables, local_vars, declared, Clean)
      /\ FramesOK(open, scope_depth, in_unsafe, loopReturn, Clean)
      /\ Len(declared) = scope_depth + 1
      /\ in_unsafe \in BOOLEAN /\ loopReturn \in BOOLEAN
  BY <1>1, Inside
<1>4. illegal \in BOOLEAN
  OBVIOUS
<1>5. errors = {} => (illegal <=> ~found)
  <2>1. SUFFICES ASSUME errors = {} PROVE illegal <=> ~found
    OBVIOUS
  <2>2. TablesOK(variables, local_vars, declared, TRUE)
    BY <2>1, <1>3 DEF Clean, TablesOK
  <2>3. QED
    BY <2>2, TablesFind
<1> HIDE DEF found, illegal
<1>6. CASE found
  <2>1. /\ GoOn /\ variables' = variables /\ local_vars' = local_vars
        /\ scope_depth' = scope_depth /\ in_unsafe' = in_unsafe /\ open' = open
        /\ declared' = declared /\ fallsOff' = fallsOff /\ loopReturn' = loopReturn
    BY <1>2, <1>6 DEF tables
  <2>2. /\ TablesOK(variables', local_vars', declared', Clean)
        /\ FramesOK(open', scope_depth', in_unsafe', loopReturn', Clean)
    BY <1>3, <2>1
  <2>3. QED
    BY <1>1, <1>2, <1>3, <1>4, <1>5, <1>6, <2>1, <2>2, GoesOn
<1>7. CASE ~found
  BY <1>1, <1>2, <1>4, <1>5, <1>7, Fails
<1>8. QED
  BY <1>6, <1>7

LEMMA CastInv ==
    ASSUME WalkInv, Cast
    PROVE  WalkInv'
<1> DEFINE illegal == ~InUnsafe
<1>1. phase = "body" /\ stmts' \in Nat
  BY StatementInv DEF Cast
<1>2. /\ IF in_unsafe THEN GoOn /\ UNCHANGED <<tables, open, declared>> ELSE Fail
      /\ Forbid(illegal) /\ UNCHANGED <<fallsOff, loopReturn>>
  BY DEF Cast
<1>3. /\ TablesOK(variables, local_vars, declared, Clean)
      /\ FramesOK(open, scope_depth, in_unsafe, loopReturn, Clean)
      /\ Len(declared) = scope_depth + 1
      /\ in_unsafe \in BOOLEAN /\ loopReturn \in BOOLEAN
  BY <1>1, Inside
<1>4. illegal \in BOOLEAN
  BY DEF InUnsafe
<1>5. errors = {} => (illegal <=> ~in_unsafe)
  <2>1. SUFFICES ASSUME errors = {} PROVE illegal <=> ~in_unsafe
    OBVIOUS
  <2>2. FlagOK(open, in_unsafe)
    BY <2>1, <1>3 DEF Clean, FramesOK
  <2>3. DOMAIN open = 1 .. Len(open)
    BY <1>3, FramesDepth
  <2>4. QED
    BY <2>2, <2>3 DEF FlagOK, UnsafeIn, InUnsafe
<1> HIDE DEF illegal
<1>6. CASE in_unsafe
  <2>1. /\ GoOn /\ variables' = variables /\ local_vars' = local_vars
        /\ scope_depth' = scope_depth /\ in_unsafe' = in_unsafe /\ open' = open
        /\ declared' = declared /\ fallsOff' = fallsOff /\ loopReturn' = loopReturn
    BY <1>2, <1>6 DEF tables
  <2>2. /\ TablesOK(variables', local_vars', declared', Clean)
        /\ FramesOK(open', scope_depth', in_unsafe', loopReturn', Clean)
    BY <1>3, <2>1
  <2>3. QED
    BY <1>1, <1>2, <1>3, <1>4, <1>5, <1>6, <2>1, <2>2, GoesOn
<1>7. CASE ~in_unsafe
  BY <1>1, <1>2, <1>4, <1>5, <1>7, Fails
<1>8. QED
  BY <1>6, <1>7

LEMMA IllTypedInv ==
    ASSUME WalkInv, IllTyped
    PROVE  WalkInv'
<1>1. phase = "body" /\ stmts' \in Nat
  BY StatementInv DEF IllTyped
<1>2. Fail /\ Forbid(TRUE) /\ UNCHANGED <<fallsOff, loopReturn>>
  BY DEF IllTyped
<1>3. QED
  BY <1>1, <1>2, Fails

LEMMA ReturnedFrames ==
    ASSUME WalkInv, phase = "body", SetTop(Returned), scope_depth' = scope_depth,
           in_unsafe' = in_unsafe, loopReturn' = loopReturn
    PROVE  FramesOK(open', scope_depth', in_unsafe', loopReturn', Clean)
<1>1. /\ FramesOK(open, scope_depth, in_unsafe, loopReturn, Clean)
      /\ Top \in Frame /\ Top = open[Len(open)] /\ Len(open) \in Nat \ {0}
  BY Inside
<1>2. /\ Returned \in Frame /\ Returned.kind = Top.kind /\ ~Returned.reached
      /\ Returned.prev_unsafe = Top.prev_unsafe
      /\ Returned.thenCertain = Top.thenCertain /\ Returned.thenReached = Top.thenReached
  BY <1>1 DEF Returned, Frame
<1>3. ScopesOf(Returned) = ScopesOf(open[Len(open)])
  BY <1>1, <1>2 DEF ScopesOf
<1>4. Len(open) = 1 => Returned.kind = "block"
  BY <1>1, <1>2 DEF FramesOK
<1>5. Flow(open, loopReturn) /\ Len(open) \in 1 .. Len(open)
  BY <1>1 DEF FramesOK
<1>6. FrameFlow(Returned, loopReturn)
  BY <1>1, <1>2, <1>5 DEF Flow, FrameFlow
<1>7. Len(open) > 1 /\ (Returned.reached \/ Returned.thenReached) => open[Len(open) - 1].reached
  <2>1. Len(open) > 1 => Len(open) \in 2 .. Len(open)
    BY <1>1
  <2>2. QED
    BY <2>1, <1>1, <1>2, <1>5 DEF Flow
<1>8. FramesOK([open EXCEPT ![Len(open)] = Returned], scope_depth, in_unsafe, loopReturn, Clean)
  BY <1>1, <1>2, <1>3, <1>4, <1>6, <1>7, FramesSet
<1>9. QED
  BY <1>8 DEF SetTop

LEMMA ReturnInv ==
    ASSUME WalkInv, Return
    PROVE  WalkInv'
<1>1. phase = "body" /\ stmts' \in Nat
  BY StatementInv DEF Return
<1>2. /\ TablesOK(variables, local_vars, declared, Clean)
      /\ Len(declared) = scope_depth + 1
      /\ in_unsafe \in BOOLEAN /\ loopReturn \in BOOLEAN
  BY <1>1, Inside
<1>3. UNCHANGED <<fallsOff, loopReturn>>
  BY DEF Return
<1>4. CASE GoOn /\ SetTop(Returned) /\ UNCHANGED <<tables, declared, wrong>>
  <2>1. /\ GoOn /\ SetTop(Returned) /\ variables' = variables /\ local_vars' = local_vars
        /\ scope_depth' = scope_depth /\ in_unsafe' = in_unsafe /\ declared' = declared
        /\ fallsOff' = fallsOff /\ loopReturn' = loopReturn /\ Forbid(FALSE)
    BY <1>3, <1>4, Allowed DEF tables
  <2>2. TablesOK(variables', local_vars', declared', Clean)
    BY <1>2, <2>1
  <2>3. FramesOK(open', scope_depth', in_unsafe', loopReturn', Clean)
    BY <1>1, <2>1, ReturnedFrames
  <2>4. QED
    BY <1>1, <1>2, <2>1, <2>2, <2>3, GoesOn
<1>5. CASE Fail /\ Forbid(TRUE)
  BY <1>1, <1>3, <1>5, Fails
<1>6. QED
  BY <1>4, <1>5 DEF Return

LEMMA ReturnAddressInv ==
    ASSUME WalkInv, NEW n \in Names, ReturnAddress(n)
    PROVE  WalkInv'
<1> DEFINE passed == lookup(variables, n) /\ ~lookup(local_vars, n)
           illegal == ~lookup(declared, n) \/ lookup(Tail(declared), n)
<1>1. phase = "body" /\ stmts' \in Nat
  BY StatementInv DEF ReturnAddress
<1>2. /\ IF passed THEN GoOn /\ SetTop(Returned) /\ UNCHANGED <<tables, declared>> ELSE Fail
      /\ Forbid(illegal) /\ UNCHANGED <<fallsOff, loopReturn>>
  BY DEF ReturnAddress
<1>3. /\ TablesOK(variables, local_vars, declared, Clean)
      /\ Len(declared) = scope_depth + 1
      /\ in_unsafe \in BOOLEAN /\ loopReturn \in BOOLEAN
  BY <1>1, Inside
<1>4. illegal \in BOOLEAN
  OBVIOUS
<1>5. errors = {} => (illegal <=> ~passed)
  <2>1. SUFFICES ASSUME errors = {} PROVE illegal <=> ~passed
    OBVIOUS
  <2>2. TablesOK(variables, local_vars, declared, TRUE)
    BY <2>1, <1>3 DEF Clean, TablesOK
  <2>3. QED
    BY <2>2, TablesFind
<1> HIDE DEF passed, illegal
<1>6. CASE passed
  <2>1. /\ GoOn /\ SetTop(Returned) /\ variables' = variables /\ local_vars' = local_vars
        /\ scope_depth' = scope_depth /\ in_unsafe' = in_unsafe /\ declared' = declared
        /\ fallsOff' = fallsOff /\ loopReturn' = loopReturn
    BY <1>2, <1>6 DEF tables
  <2>2. TablesOK(variables', local_vars', declared', Clean)
    BY <1>3, <2>1
  <2>3. FramesOK(open', scope_depth', in_unsafe', loopReturn', Clean)
    BY <1>1, <2>1, ReturnedFrames
  <2>4. QED
    BY <1>1, <1>2, <1>3, <1>4, <1>5, <1>6, <2>1, <2>2, <2>3, GoesOn
<1>7. CASE ~passed
  BY <1>1, <1>2, <1>4, <1>5, <1>7, Fails
<1>8. QED
  BY <1>6, <1>7

-----------------------------------------------------------------------------
(* Statements with a body *)

LEMMA FreshIs ==
    ASSUME NEW kind \in {"block", "if", "else", "while", "for", "switch", "unsafe"},
           NEW reached \in BOOLEAN, in_unsafe \in BOOLEAN
    PROVE  /\ Fresh(kind, reached) \in Frame
           /\ Fresh(kind, reached).kind = kind
           /\ ~Fresh(kind, reached).certain
           /\ Fresh(kind, reached).reached = reached
           /\ ~Fresh(kind, reached).thenCertain /\ ~Fresh(kind, reached).thenReached
           /\ Fresh(kind, reached).prev_unsafe = in_unsafe
BY DEF Fresh, Frame

LEMMA OpenInv ==
    ASSUME WalkInv, NEW kind \in {"block", "if", "while", "switch", "unsafe"},
           Open(kind), EnterScope, in_unsafe' = (in_unsafe \/ kind = "unsafe")
    PROVE  WalkInv'
<1> DEFINE s == Fresh(kind, Top.reached)
<1>1. phase = "body" /\ stmts' \in Nat
  BY StatementInv DEF Open
<1>2. /\ open' = Append(open, s) /\ declared' = Append(declared, {}) /\ GoOn
      /\ variables' = Append(variables, {}) /\ local_vars' = Append(local_vars, {})
      /\ scope_depth' = scope_depth + 1 /\ Forbid(FALSE)
      /\ fallsOff' = fallsOff /\ loopReturn' = loopReturn
  BY Allowed DEF Open, EnterScope, enter_scope
<1>3. /\ TablesOK(variables, local_vars, declared, Clean)
      /\ FramesOK(open, scope_depth, in_unsafe, loopReturn, Clean)
      /\ Len(declared) = scope_depth + 1 /\ scope_depth \in Nat
      /\ Top \in Frame /\ Top = open[Len(open)]
      /\ in_unsafe \in BOOLEAN /\ loopReturn \in BOOLEAN
  BY <1>1, Inside
<1>4. Top.reached \in BOOLEAN
  BY <1>3 DEF Frame
<1>5. /\ s \in Frame /\ s.kind = kind /\ ~s.certain /\ s.reached = Top.reached
      /\ ~s.thenCertain /\ ~s.thenReached /\ s.prev_unsafe = in_unsafe
  BY <1>3, <1>4, FreshIs
<1> HIDE DEF s
<1>6. ScopesOf(s) = 1
  BY <1>5 DEF ScopesOf
<1>7. FramesOK(Append(open, s), scope_depth + ScopesOf(s), in_unsafe', loopReturn, Clean)
  <2>1. in_unsafe' <=> in_unsafe \/ s.kind = "unsafe"
    BY <1>5
  <2>2. s.prev_unsafe <=> in_unsafe
    BY <1>5
  <2>3. s.reached => open[Len(open)].reached
    BY <1>3, <1>5
  <2>4. QED
    BY <2>1, <2>2, <2>3, <1>3, <1>5, FramesPushed
<1>8. FramesOK(open', scope_depth', in_unsafe', loopReturn', Clean)
  BY <1>2, <1>6, <1>7
<1>9. {} \in Scopes
  BY DEF Scopes
<1>10. TablesOK(variables', local_vars', declared', Clean) /\ Len(declared') = Len(declared) + 1
  BY <1>2, <1>3, <1>9, TablesEntered
<1>11. Len(declared') = scope_depth' + 1
  BY <1>2, <1>3, <1>10
<1>12. in_unsafe' \in BOOLEAN /\ loopReturn' \in BOOLEAN
  BY <1>2, <1>3
<1>13. QED
  BY <1>1, <1>2, <1>8, <1>10, <1>11, <1>12, GoesOn

LEMMA ForInv ==
    ASSUME WalkInv, NEW n \in Names, For(n)
    PROVE  WalkInv'
<1> DEFINE s == Fresh("for", Top.reached)
<1>1. phase = "body" /\ stmts' \in Nat
  BY StatementInv DEF For
<1>2. /\ open' = Append(open, s) /\ declared' = declared \o <<{n}, {}>> /\ GoOn
      /\ variables' = variables \o <<{n}, {}>> /\ local_vars' = local_vars \o <<{n}, {}>>
      /\ scope_depth' = scope_depth + 2 /\ Forbid(FALSE) /\ in_unsafe' = in_unsafe
      /\ fallsOff' = fallsOff /\ loopReturn' = loopReturn
  BY Allowed DEF For
<1>3. /\ TablesOK(variables, local_vars, declared, Clean)
      /\ FramesOK(open, scope_depth, in_unsafe, loopReturn, Clean)
      /\ Len(declared) = scope_depth + 1 /\ scope_depth \in Nat
      /\ Top \in Frame /\ Top = open[Len(open)]
      /\ in_unsafe \in BOOLEAN /\ loopReturn \in BOOLEAN
  BY <1>1, Inside
<1>4. Top.reached \in BOOLEAN
  BY <1>3 DEF Frame
<1>5. /\ s \in Frame /\ s.kind = "for" /\ ~s.certain /\ s.reached = Top.reached
      /\ ~s.thenCertain /\ ~s.thenReached /\ s.prev_unsafe = in_unsafe
  BY <1>3, <1>4, FreshIs
<1> HIDE DEF s
<1>6. ScopesOf(s) = 2
  BY <1>5 DEF ScopesOf
<1>7. FramesOK(Append(open, s), scope_depth + ScopesOf(s), in_unsafe', loopReturn, Clean)
  <2>1. in_unsafe' <=> in_unsafe \/ s.kind = "unsafe"
    BY <1>2, <1>5
  <2>2. s.prev_unsafe <=> in_unsafe
    BY <1>5
  <2>3. s.reached => open[Len(open)].reached
    BY <1>3, <1>5
  <2>4. QED
    BY <2>1, <2>2, <2>3, <1>3, <1>5, FramesPushed
<1>8. FramesOK(open', scope_depth', in_unsafe', loopReturn', Clean)
  BY <1>2, <1>6, <1>7
<1>9. {} \in Scopes /\ {n} \in Scopes
  BY DEF Scopes
<1>10. TablesOK(variables', local_vars', declared', Clean) /\ Len(declared') = Len(declared) + 2
  <2>1. PICK a \in Scopes, b \in Scopes : a = {n} /\ b = {}
    BY <1>9
  <2>2. /\ TablesOK(variables \o <<a, b>>, local_vars \o <<a, b>>, declared \o <<a, b>>, Clean)
        /\ Len(declared \o <<a, b>>) = Len(declared) + 2
    BY <1>3, TablesEnteredTwo
  <2>3. QED
    BY <1>2, <2>1, <2>2, Zenon
<1>11. Len(declared') = scope_depth' + 1
  BY <1>2, <1>3, <1>10
<1>12. in_unsafe' \in BOOLEAN /\ loopReturn' \in BOOLEAN
  BY <1>2, <1>3
<1>13. QED
  BY <1>1, <1>2, <1>8, <1>10, <1>11, <1>12, GoesOn

LEMMA ElseInv ==
    ASSUME WalkInv, Else
    PROVE  WalkInv'
<1> DEFINE s == [Fresh("else", open[Len(open) - 1].reached) EXCEPT
                    !.thenCertain = Top.certain, !.thenReached = Top.reached,
                    !.prev_unsafe = Top.prev_unsafe]
<1>1. phase = "body" /\ stmts' \in Nat
  BY StatementInv DEF Else
<1>2. /\ open' = [open EXCEPT ![Len(open)] = s] /\ Top.kind = "if"
      /\ declared' = Append(exit_scope(declared), {}) /\ GoOn
      /\ variables' = Append(exit_scope(variables), {})
      /\ local_vars' = Append(exit_scope(local_vars), {})
      /\ scope_depth' = scope_depth /\ Forbid(FALSE) /\ in_unsafe' = in_unsafe
      /\ fallsOff' = fallsOff /\ loopReturn' = loopReturn
  BY Allowed DEF Else, enter_scope
<1>3. /\ TablesOK(variables, local_vars, declared, Clean)
      /\ FramesOK(open, scope_depth, in_unsafe, loopReturn, Clean)
      /\ Len(declared) = scope_depth + 1 /\ scope_depth \in Nat
      /\ Len(open) \in Nat /\ Len(open) > 0
      /\ Top \in Frame /\ Top = open[Len(open)]
      /\ in_unsafe \in BOOLEAN /\ loopReturn \in BOOLEAN
  BY <1>1, Inside
<1>4. Len(open) > 1
  <2>1. Len(open) # 1
    BY <1>2, <1>3 DEF FramesOK
  <2>2. \A m \in Nat : m > 0 /\ m # 1 => m > 1
    OBVIOUS
  <2>3. QED
    BY <2>1, <2>2, <1>3, Zenon
<1>5. /\ Flow(open, loopReturn)
      /\ Len(open) \in 1 .. Len(open) /\ Len(open) \in 2 .. Len(open)
      /\ Len(open) - 1 \in 1 .. Len(open)
  BY <1>3, <1>4 DEF FramesOK
<1>6. open[Len(open) - 1] \in Frame
  BY <1>3, <1>5, FramesDepth
<1>7. open[Len(open) - 1].reached \in BOOLEAN
  BY <1>6 DEF Frame
<1>8. /\ s \in Frame /\ s.kind = "else" /\ ~s.certain
      /\ s.reached = open[Len(open) - 1].reached
      /\ s.thenCertain = Top.certain /\ s.thenReached = Top.reached
      /\ s.prev_unsafe = Top.prev_unsafe
  BY <1>3, <1>7 DEF Fresh, Frame
<1> HIDE DEF s
<1>9. FramesOK([open EXCEPT ![Len(open)] = s], scope_depth, in_unsafe, loopReturn, Clean)
  <2>1. ScopesOf(s) = ScopesOf(open[Len(open)])
    BY <1>2, <1>3, <1>8 DEF ScopesOf
  <2>2. s.kind = "unsafe" <=> open[Len(open)].kind = "unsafe"
    BY <1>2, <1>3, <1>8
  <2>3. FrameFlow(s, loopReturn)
    BY <1>3, <1>5, <1>8 DEF Flow, FrameFlow
  <2>4. s.reached \/ s.thenReached => open[Len(open) - 1].reached
    BY <1>3, <1>5, <1>8 DEF Flow
  <2>5. s.prev_unsafe = open[Len(open)].prev_unsafe /\ (Len(open) = 1 => s.kind = "block")
    BY <1>3, <1>4, <1>8
  <2>6. QED
    BY <2>1, <2>2, <2>3, <2>4, <2>5, <1>3, <1>8, FramesSet
<1>10. FramesOK(open', scope_depth', in_unsafe', loopReturn', Clean)
  BY <1>2, <1>9
<1>11. scope_depth > 0
  BY <1>3, DepthPositive
<1>12. /\ TablesOK(exit_scope(variables), exit_scope(local_vars), exit_scope(declared), Clean)
       /\ Len(exit_scope(declared)) = Len(declared) - 1
  <2>1. Len(declared) > 1
    BY <1>3, <1>11
  <2>2. QED
    BY <2>1, <1>3, TablesExited
<1>13. {} \in Scopes
  BY DEF Scopes
<1>14. /\ TablesOK(variables', local_vars', declared', Clean)
       /\ Len(declared') = Len(exit_scope(declared)) + 1
  BY <1>2, <1>12, <1>13, TablesEntered
<1>15. Len(declared') = scope_depth' + 1
  BY <1>2, <1>3, <1>12, <1>14
<1>16. in_unsafe' \in BOOLEAN /\ loopReturn' \in BOOLEAN
  BY <1>2, <1>3
<1>17. QED
  BY <1>1, <1>2, <1>10, <1>14, <1>15, <1>16, GoesOn

LEMMA CloseInv ==
    ASSUME WalkInv, Close
    PROVE  WalkInv'
<1> DEFINE k == ScopesOf(Top)
<1>1. /\ phase = "body" /\ Len(open) > 1
      /\ variables' = Without(variables, k) /\ local_vars' = Without(local_vars, k)
      /\ declared' = Without(declared, k) /\ scope_depth' = scope_depth - k
      /\ in_unsafe' = UnsafeAfter(Top) /\ GoOn /\ Forbid(FALSE)
      /\ open' = Append(Front(Front(open)),
                        [open[Len(open) - 1] EXCEPT
                            !.certain = @ \/ check_definite_return(Top),
                            !.reached = Passed(Top, @)])
      /\ loopReturn' = (loopReturn \/ (Top.kind \in {"while", "for", "switch"} /\ Top.certain))
      /\ stmts' = stmts /\ fallsOff' = fallsOff
  BY Allowed DEF Close
<1>2. /\ TablesOK(variables, local_vars, declared, Clean)
      /\ FramesOK(open, scope_depth, in_unsafe, loopReturn, Clean)
      /\ Len(declared) = scope_depth + 1 /\ scope_depth \in Nat
      /\ Top \in Frame /\ Top = open[Len(open)]
      /\ in_unsafe \in BOOLEAN /\ loopReturn \in BOOLEAN /\ stmts \in Nat
  BY <1>1, Inside
<1>3. /\ in_unsafe' <=> IF open[Len(open)].kind = "unsafe" THEN open[Len(open)].prev_unsafe
                        ELSE in_unsafe
      /\ loopReturn' <=> \/ loopReturn
                         \/ /\ open[Len(open)].kind \in {"while", "for", "switch"}
                            /\ open[Len(open)].certain
      /\ in_unsafe' \in BOOLEAN /\ loopReturn' \in BOOLEAN
  BY <1>1, <1>2 DEF UnsafeAfter, Frame
<1>4. /\ FramesOK(Append(Front(Front(open)),
                      [open[Len(open) - 1] EXCEPT
                          !.certain = @ \/ check_definite_return(open[Len(open)]),
                          !.reached = Passed(open[Len(open)], @)]),
                  scope_depth - ScopesOf(open[Len(open)]), in_unsafe', loopReturn', Clean)
      /\ ScopesOf(open[Len(open)]) < scope_depth
  BY <1>1, <1>2, <1>3, FramesPopped
<1>5. k \in Nat /\ k < scope_depth /\ k < Len(declared)
  <2>1. k \in Nat
    BY DEF ScopesOf
  <2>2. k < scope_depth
    BY <1>2, <1>4
  <2>3. QED
    BY <2>1, <2>2, <1>2
<1>6. FramesOK(open', scope_depth', in_unsafe', loopReturn', Clean)
  BY <1>1, <1>2, <1>4
<1> HIDE DEF k
<1>7. TablesOK(variables', local_vars', declared', Clean) /\ Len(declared') = Len(declared) - k
  BY <1>1, <1>2, <1>5, TablesDropped
<1>8. Len(declared') = scope_depth' + 1
  BY <1>1, <1>2, <1>5, <1>7
<1>9. stmts' \in Nat
  BY <1>1, <1>2
<1>10. QED
  BY <1>1, <1>3, <1>6, <1>7, <1>8, <1>9, GoesOn

-----------------------------------------------------------------------------
(* Declarations *)

LEMMA Outside ==
    ASSUME WalkInv, phase = "toplevel"
    PROVE  /\ TablesOK(variables, local_vars, declared, Clean)
           /\ Len(declared) = 1
           /\ errors = {} => ~in_unsafe
           /\ in_unsafe \in BOOLEAN /\ function \in Nat /\ stmts \in Nat
BY DEF WalkInv, BetweenFunctions, TypeOK, Clean

LEMMA GlobalVarInv ==
    ASSUME WalkInv, NEW n \in Names, GlobalVar(n)
    PROVE  WalkInv'
<1> DEFINE item == <<"global", stmts>>
           found == lookup(variables, n)
<1>1. /\ phase = "toplevel" /\ stmts' = stmts + 1
      /\ local_vars' = local_vars /\ scope_depth' = scope_depth /\ in_unsafe' = in_unsafe
      /\ open' = open /\ function' = function /\ returnsValue' = returnsValue
      /\ phase' = phase /\ fallsOff' = fallsOff /\ loopReturn' = loopReturn
  BY DEF GlobalVar
<1>2. PICK sameType \in BOOLEAN :
        /\ errors' = IF found /\ ~sameType THEN errors \cup {item} ELSE errors
        /\ variables' = IF found THEN variables ELSE insert(variables, n)
        /\ wrong' = IF n \in declared[1] /\ ~sameType THEN wrong \cup {item} ELSE wrong
        /\ declared' = [declared EXCEPT ![1] = @ \cup {n}]
  BY DEF GlobalVar
<1>3. /\ TablesOK(variables, local_vars, declared, Clean) /\ Len(declared) = 1
      /\ errors = {} => ~in_unsafe
      /\ in_unsafe \in BOOLEAN /\ function \in Nat /\ stmts \in Nat
      /\ TypeOK /\ SameVerdict /\ fallsOff = {}
  BY <1>1, Outside DEF WalkInv
<1>4. item \in Items
  BY <1>3, ItemIs
<1>5. errors = {} => (found <=> n \in declared[1])
  <2>1. SUFFICES ASSUME errors = {} PROVE found <=> n \in declared[1]
    OBVIOUS
  <2>2. TablesOK(variables, local_vars, declared, TRUE)
    BY <2>1, <1>3 DEF Clean, TablesOK
  <2>3. QED
    BY <2>2, <1>3, TablesFind
<1>6. TablesOK(variables', local_vars', declared', Clean) /\ Len(declared') = 1
  <2>1. /\ variables' = Declared(variables, n) /\ declared' = WithGlobal(declared, n)
        /\ local_vars' = local_vars
    BY <1>1, <1>2 DEF Declared, WithGlobal
  <2>2. TablesOK(variables, local_vars, declared, Clean)
    BY <1>3
  <2>3. Len(declared) = 1
    BY <1>3
  <2>4. /\ TablesOK(Declared(variables, n), local_vars, WithGlobal(declared, n), Clean)
        /\ Len(WithGlobal(declared, n)) = 1
    BY <2>2, <2>3, TablesGlobal
  <2>5. QED
    BY <2>1, <2>4
<1> HIDE DEF found, item
<1>7. errors' = {} => errors = {}
  BY <1>2
<1>8. TablesOK(variables', local_vars', declared', errors' = {})
  BY <1>6, <1>7 DEF TablesOK, Clean
<1>9. /\ variables' \in Seq(Scopes) /\ declared' \in Seq(Scopes)
  BY <1>6 DEF TablesOK
<1>10. /\ stmts' \in Nat /\ errors' \subseteq Items /\ wrong' \subseteq Items
  <2>1. stmts' \in Nat
    BY <1>1, <1>3
  <2>2. errors \subseteq Items /\ wrong \subseteq Items
    BY <1>3 DEF TypeOK
  <2>3. QED
    BY <2>1, <2>2, <1>2, <1>4
<1>11. TypeOK'
  BY <1>1, <1>3, <1>9, <1>10 DEF TypeOK, Scopes
<1>12. SameVerdict'
  BY <1>2, <1>3, <1>5 DEF SameVerdict
<1>13. BetweenFunctions'
  BY <1>1, <1>3, <1>6, <1>7 DEF BetweenFunctions
<1>14. QED
  BY <1>1, <1>3, <1>8, <1>11, <1>12, <1>13 DEF WalkInv

LEMMA FunctionInv ==
    ASSUME WalkInv, NEW params \in SUBSET Names, NEW value \in BOOLEAN, Function(params, value)
    PROVE  WalkInv'
<1>1. /\ phase = "toplevel" /\ phase' = "body"
      /\ function' = function + 1 /\ returnsValue' = value
      /\ variables' = variables \o <<params, {}>>
      /\ local_vars' = local_vars \o <<params, {}>>
      /\ scope_depth' = 2 /\ open' = <<Fresh("block", TRUE)>>
      /\ declared' = <<declared[1], params, {}>> /\ loopReturn' = FALSE
      /\ in_unsafe' = in_unsafe /\ errors' = errors /\ stmts' = stmts /\ wrong' = wrong
      /\ fallsOff' = fallsOff
  BY DEF Function
<1>2. /\ TablesOK(variables, local_vars, declared, Clean) /\ Len(declared) = 1
      /\ Clean => ~in_unsafe
      /\ in_unsafe \in BOOLEAN /\ function \in Nat /\ stmts \in Nat
      /\ TypeOK /\ SameVerdict /\ fallsOff = {}
  BY <1>1, Outside DEF WalkInv, Clean
<1>3. TablesOK(variables', local_vars', declared', Clean) /\ Len(declared') = 3
  <2>1. PICK a \in Scopes, b \in Scopes : a = params /\ b = {}
    BY DEF Scopes
  <2>2. /\ TablesOK(variables \o <<a, b>>, local_vars \o <<a, b>>, <<declared[1], a, b>>, Clean)
        /\ Len(<<declared[1], a, b>>) = 3
    BY <1>2, TablesFirst
  <2>3. QED
    BY <1>1, <2>1, <2>2, Zenon
<1>4. PICK s \in Frame : /\ s = Fresh("block", TRUE) /\ s.kind = "block" /\ ~s.certain
                          /\ ~s.thenCertain /\ s.prev_unsafe = in_unsafe
  <2>1. TRUE \in BOOLEAN /\ in_unsafe \in BOOLEAN
    BY <1>2
  <2>2. QED
    BY <2>1, FreshIs
<1>5. FramesOK(open', scope_depth', in_unsafe', loopReturn', Clean)
  <2>1. FramesOK(<<s>>, 2, in_unsafe, loopReturn', Clean)
    BY <1>2, <1>4, FramesFirst
  <2>2. QED
    BY <2>1, <1>1, <1>4
<1>6. /\ variables' \in Seq(Scopes) /\ local_vars' \in Seq(Scopes) /\ declared' \in Seq(Scopes)
      /\ open' \in Seq(Frame)
  BY <1>3, <1>5 DEF TablesOK, FramesOK
<1>7. TypeOK'
  <2>1. /\ scope_depth' \in Nat /\ in_unsafe' \in BOOLEAN /\ function' \in Nat
        /\ returnsValue' \in BOOLEAN /\ phase' = "body" /\ stmts' \in Nat
        /\ loopReturn' \in BOOLEAN
    <3>1. scope_depth' \in Nat /\ function' \in Nat
      BY <1>1, <1>2
    <3>2. in_unsafe' \in BOOLEAN /\ returnsValue' \in BOOLEAN /\ stmts' \in Nat
      BY <1>1, <1>2
    <3>3. loopReturn' \in BOOLEAN
      BY <1>1
    <3>4. QED
      BY <3>1, <3>2, <3>3, <1>1
  <2>2. errors' \subseteq Items /\ wrong' \subseteq Items /\ fallsOff' \subseteq Items
    BY <1>1, <1>2 DEF TypeOK
  <2>3. QED
    BY <2>1, <2>2, <1>6 DEF TypeOK, Scopes
<1>8. InFunction'
  BY <1>1, <1>3, <1>5 DEF InFunction, Clean
<1>9. TablesOK(variables, local_vars, declared, errors = {})'
  BY <1>1, <1>3 DEF Clean
<1>10. SameVerdict'
  BY <1>1, <1>2 DEF SameVerdict
<1>11. QED
  BY <1>1, <1>2, <1>7, <1>8, <1>9, <1>10 DEF WalkInv

LEMMA EndFunctionInv ==
    ASSUME WalkInv, EndFunction
    PROVE  WalkInv'
<1> DEFINE item == <<"function", function>>
<1>1. /\ phase = "body" /\ Len(open) = 1 /\ phase' = "toplevel" /\ open' = <<>>
      /\ declared' = <<declared[1]>> /\ in_unsafe' = in_unsafe /\ function' = function
      /\ returnsValue' = returnsValue /\ stmts' = stmts /\ loopReturn' = loopReturn
  BY DEF EndFunction
<1>2. /\ TablesOK(variables, local_vars, declared, Clean)
      /\ FramesOK(open, scope_depth, in_unsafe, loopReturn, Clean)
      /\ Len(declared) = scope_depth + 1 /\ scope_depth \in Nat
      /\ Top \in Frame /\ Top = open[Len(open)]
      /\ in_unsafe \in BOOLEAN /\ TypeOK /\ SameVerdict /\ fallsOff = {}
  BY <1>1, Inside DEF WalkInv
<1>3. scope_depth = 2 /\ Len(declared) = 3
  <2>1. scope_depth = 2
    BY <1>1, <1>2, FramesDepth
  <2>2. QED
    BY <2>1, <1>2
<1>4. item \in Items
  BY <1>2, ItemIs
<1> HIDE DEF item
<1>5. CASE returnsValue /\ ~Top.certain
  <2>1. /\ errors' = errors \cup {item} /\ wrong' = wrong \cup {item}
        /\ variables' = exit_scope(variables) /\ local_vars' = exit_scope(local_vars)
        /\ scope_depth' = scope_depth - 1 /\ fallsOff' = fallsOff
    BY <1>5 DEF EndFunction, ExitScope, item
  <2>2. errors' # {} /\ wrong' # {} /\ errors' \subseteq Items /\ wrong' \subseteq Items
    BY <2>1, <1>2, <1>4 DEF TypeOK
  <2>3. TablesOK(variables', local_vars', declared', FALSE)
    <3>1. Len(declared) > 1
      BY <1>3
    <3>2. TablesOK(exit_scope(variables), exit_scope(local_vars), <<declared[1]>>, FALSE)
      BY <3>1, <1>2, TablesLeft
    <3>3. QED
      BY <3>2, <2>1, <1>1
  <2>4. scope_depth' \in Nat
    BY <2>1, <1>3
  <2>5. /\ variables' \in Seq(Scopes) /\ local_vars' \in Seq(Scopes)
        /\ declared' \in Seq(Scopes) /\ open' \in Seq(Frame) /\ Len(declared') = 1
    BY <2>3, <1>1 DEF TablesOK
  <2>6. TypeOK'
    BY <2>1, <2>2, <2>4, <2>5, <1>1, <1>2 DEF TypeOK, Scopes
  <2>7. TablesOK(variables, local_vars, declared, errors = {})'
    BY <2>2, <2>3 DEF TablesOK
  <2>8. BetweenFunctions' /\ SameVerdict'
    BY <2>2, <2>5 DEF BetweenFunctions, SameVerdict
  <2>9. QED
    BY <2>1, <2>6, <2>7, <2>8, <1>1, <1>2 DEF WalkInv
<1>6. CASE ~(returnsValue /\ ~Top.certain)
  <2>1. /\ errors' = errors /\ wrong' = wrong /\ scope_depth' = 0
        /\ variables' = exit_scope(exit_scope(variables))
        /\ local_vars' = exit_scope(exit_scope(local_vars))
        /\ fallsOff' = IF returnsValue /\ Top.reached /\ ~loopReturn
                       THEN fallsOff \cup {item} ELSE fallsOff
    BY <1>6 DEF EndFunction, item
  <2>2. ~(returnsValue /\ Top.reached /\ ~loopReturn)
    <3>1. Len(open) \in 1 .. Len(open)
      BY <1>1
    <3>2. FrameFlow(Top, loopReturn)
      BY <3>1, <1>2 DEF FramesOK, Flow
    <3>3. returnsValue => Top.certain
      BY <1>6
    <3>4. QED
      BY <3>2, <3>3 DEF FrameFlow
  <2>3. fallsOff' = {}
    BY <2>1, <2>2, <1>2
  <2>4. TablesOK(variables', local_vars', declared', Clean)
    BY <2>1, <1>1, <1>2, <1>3, TablesLast
  <2>5. /\ variables' \in Seq(Scopes) /\ local_vars' \in Seq(Scopes)
        /\ declared' \in Seq(Scopes) /\ open' \in Seq(Frame) /\ Len(declared') = 1
    BY <2>4, <1>1 DEF TablesOK
  <2>6. TypeOK'
    BY <2>1, <2>3, <2>5, <1>1, <1>2 DEF TypeOK, Scopes
  <2>7. TablesOK(variables, local_vars, declared, errors = {})'
    BY <2>1, <2>4 DEF Clean
  <2>8. errors' = {} => ~in_unsafe'
    <3>1. SUFFICES ASSUME errors = {} PROVE ~in_unsafe
      BY <2>1, <1>1
    <3>2. FlagOK(open, in_unsafe) /\ open[1].kind = "block"
      BY <3>1, <1>2 DEF FramesOK, Clean
    <3>3. QED
      BY <3>2, <1>1 DEF FlagOK, UnsafeIn
  <2>9. BetweenFunctions' /\ SameVerdict'
    BY <2>1, <2>5, <2>8, <1>2 DEF BetweenFunctions, SameVerdict
  <2>10. QED
    BY <2>3, <2>6, <2>7, <2>9, <1>1 DEF WalkInv
<1>7. QED
  BY <1>5, <1>6

LEMMA FinishInv ==
    ASSUME WalkInv, Finish
    PROVE  WalkInv'
<1>1. /\ phase = "toplevel" /\ phase' = "done"
      /\ variables' = variables /\ local_vars' = local_vars /\ scope_depth' = scope_depth
      /\ in_unsafe' = in_unsafe /\ errors' = errors /\ open' = open
      /\ function' = function /\ returnsValue' = returnsValue /\ stmts' = stmts
      /\ declared' = declared /\ wrong' = wrong /\ fallsOff' = fallsOff
      /\ loopReturn' = loopReturn
  BY DEF Finish, tables
<1>2. TypeOK' /\ SameVerdict' /\ BetweenFunctions'
  BY <1>1 DEF WalkInv, TypeOK, SameVerdict, BetweenFunctions
<1>3. QED
  BY <1>1, <1>2 DEF WalkInv

-----------------------------------------------------------------------------
(* The invariant *)

LEMMA WalkStart == Init => WalkInv
<1> SUFFICES ASSUME Init PROVE WalkInv
  OBVIOUS
<1>1. PICK t : t = <<{}>>
  OBVIOUS
<1>2. t \in Seq(Scopes) /\ Len(t) = 1 /\ t[1] = {}
  BY <1>1 DEF Scopes
<1>3. variables = t /\ local_vars = t /\ declared = t
  BY <1>1 DEF Init
<1>4. TablesOK(t, t, t, errors = {})
  BY <1>2 DEF TablesOK, Kept, InStep
<1>5. TypeOK
  <2>1. /\ scope_depth = 0 /\ in_unsafe = FALSE /\ errors = {} /\ open = <<>> /\ function = 0
        /\ returnsValue = FALSE /\ phase = "toplevel" /\ stmts = 0 /\ wrong = {}
        /\ fallsOff = {} /\ loopReturn = FALSE
    BY DEF Init
  <2>2. open \in Seq(Frame)
    BY <2>1
  <2>3. QED
    BY <2>1, <2>2, <1>2, <1>3 DEF TypeOK, Scopes
<1>6. BetweenFunctions /\ SameVerdict
  BY <1>2, <1>3 DEF Init, BetweenFunctions, SameVerdict
<1>7. QED
  BY <1>3, <1>4, <1>5, <1>6 DEF Init, WalkInv

LEMMA WalkStep == WalkInv /\ [Next]_vars => WalkInv'
<1> SUFFICES ASSUME WalkInv, [Next]_vars PROVE WalkInv'
  OBVIOUS
<1>1. CASE UNCHANGED vars
  BY <1>1 DEF vars, checker, tables, WalkInv, TypeOK, InFunction, BetweenFunctions, SameVerdict
<1>2. CASE Finish
  BY <1>2, FinishInv
<1>3. ASSUME NEW n \in Names, GlobalVar(n) PROVE WalkInv'
  BY <1>3, GlobalVarInv
<1>4. ASSUME NEW n \in Names, Decl(n) PROVE WalkInv'
  BY <1>4, DeclInv
<1>5. ASSUME NEW n \in Names, Use(n) PROVE WalkInv'
  BY <1>5, UseInv
<1>6. ASSUME NEW n \in Names, ReturnAddress(n) PROVE WalkInv'
  BY <1>6, ReturnAddressInv
<1>7. ASSUME NEW n \in Names, For(n) PROVE WalkInv'
  BY <1>7, ForInv
<1>8. ASSUME NEW params \in SUBSET Names, NEW value \in BOOLEAN, Function(params, value)
      PROVE  WalkInv'
  BY <1>8, FunctionInv
<1>9. CASE EndFunction
  BY <1>9, EndFunctionInv
<1>10. CASE Cast
  BY <1>10, CastInv
<1>11. CASE IllTyped
  BY <1>11, IllTypedInv
<1>12. CASE Return
  BY <1>12, ReturnInv
<1>13. in_unsafe \in BOOLEAN
  BY DEF WalkInv, TypeOK
<1>14. CASE Compound
  BY <1>13, <1>14, OpenInv DEF Compound
<1>15. CASE If
  BY <1>13, <1>15, OpenInv DEF If
<1>16. CASE While
  BY <1>13, <1>16, OpenInv DEF While
<1>17. CASE Switch
  BY <1>13, <1>17, OpenInv DEF Switch
<1>18. CASE Unsafe
  BY <1>13, <1>18, OpenInv DEF Unsafe
<1>19. CASE Else
  BY <1>19, ElseInv
<1>20. CASE Close
  BY <1>20, CloseInv
<1>21. QED
  BY <1>1, <1>2, <1>3, <1>4, <1>5, <1>6, <1>7, <1>8, <1>9, <1>10, <1>11, <1>12, <1>14, <1>15,
     <1>16, <1>17, <1>18, <1>19, <1>20 DEF Next, Walk

LEMMA WalkInvariant == Spec => []WalkInv
BY WalkStart, WalkStep, PTL DEF Spec

\* The state of the checker has its types: in particular the depth of the scopes, a usize,
\* is never counted below zero, whatever was left open by an error (check_stmt).
THEOREM WalkTypes == Spec => []TypeOK
<1>1. WalkInv => TypeOK
  BY DEF WalkInv
<1>2. QED
  BY <1>1, WalkInvariant, PTL

\* A program is accepted if and only if C allows each of its functions by itself: nothing
\* that check_global_decl leaves in the tables of one function changes the verdict.
THEOREM VerdictsAreLocal == Spec => []VerdictIsLocal
<1>1. WalkInv => VerdictIsLocal
  BY DEF WalkInv, SameVerdict, VerdictIsLocal
<1>2. QED
  BY <1>1, WalkInvariant, PTL

\* A function that check_definite_return lets pass returns on every path, loops and
\* switches aside.
THEOREM ReturnsAreDefinite == Spec => []NeverFallsOff
<1>1. WalkInv => NeverFallsOff
  BY DEF WalkInv, NeverFallsOff
<1>2. QED
  BY <1>1, WalkInvariant, PTL

\* No error makes check_expr report a name that is in scope as undeclared.
THEOREM NothingIsForgotten == Spec => []NoneForgotten
<1>1. WalkInv => NoneForgotten
  BY KeptFinds DEF WalkInv, NoneForgotten
<1>2. QED
  BY <1>1, WalkInvariant, PTL
=============================================================================
