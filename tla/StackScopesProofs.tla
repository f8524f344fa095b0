--------------------------- MODULE StackScopesProofs ---------------------------
(***************************************************************************)
(* What codegen emits for stack variables is right for every program, of   *)
(* any number of statements: at every instruction the variables that are   *)
(* alive, and those that have their key, are the same on every path there. *)
(***************************************************************************)
EXTENDS StackScopes, SequenceTheorems, TLAPS

-----------------------------------------------------------------------------
(* Shape *)

Kinds   == {"block", "if", "else", "while", "for"}
Block   == [kind : Kinds, head : Nat \ {0}]
JumpOps == {"branch", "jump"}

Instr ==
    [op : {"declare"}, var : Decls] \cup [op : {"declare"}, var : Decls, counter : {TRUE}]
        \cup [op : {"addr"}, ptr : Decls, var : Decls]
        \cup [op : {"copy"}, ptr : Decls, from : Decls]
        \cup [op : {"deref", "save", "load"}, ptr : Decls]
        \cup [op : JumpOps, to : Nat]
        \cup [op : {"exit"}, release : SUBSET Targets, ends : SUBSET Decls]
        \cup [op : {"ret"}, ptr : Targets]

\* The instructions that wait for the end of a statement to get their target.
Heads(o) == {o[k].head : k \in {j \in DOMAIN o : o[j].kind # "block"}}

Jumps(c, heads) ==
    /\ c \in Seq(Instr)
    /\ heads \subseteq DOMAIN c
    /\ \A h \in heads : c[h].op \in JumpOps
    /\ \A i \in DOMAIN c \ heads : c[i].op \in JumpOps => c[i].to \in 1 .. Len(c) + 1

\* A for loop has a scope of its own around that of its body.
Width(kind) == IF kind = "for" THEN 2 ELSE 1

\* lev[k] is the number of scopes when k of the statements o were open; n is that of now.
LevelsOf(lev, o, n) ==
    /\ lev \in [Nat -> Nat]
    /\ lev[0] = 1
    /\ \A k \in 1 .. Len(o) : lev[k] = lev[k - 1] + Width(o[k].kind)
    /\ \A k \in 0 .. Len(o), j \in 0 .. Len(o) : j < k => lev[j] < lev[k]
    /\ lev[Len(o)] = n

Levels(lev) == LevelsOf(lev, open, Len(scopes))

Scope == [Names -> Targets]

CompilerOK ==
    /\ scopes \in Seq(Scope)
    /\ variables \in [Names -> Targets]
    /\ block_locals \in Seq(SUBSET Names)
    /\ function_locals \subseteq Names
    /\ declared \in 0 .. stmts
    /\ stmts \in 0 .. MaxStmts
    /\ \A i \in DOMAIN scopes, n \in Names : scopes[i][n] # None => variables[n] # None

FrameOK ==
    /\ nextKey \in 1 .. MaxKeys + 1
    /\ keyTable \in [Decls -> Nat]
    /\ keySlot \in [Decls -> Nat \cup {Junk}]
    /\ pointer \in [Decls -> Pointer]
    /\ cell \in Pointer /\ result \in Pointer
    /\ alive \in [Decls -> Nat]
    /\ births \in Nat
    /\ calls \in 0 .. MaxCalls

OpenOK ==
    /\ open \in Seq(Block)
    /\ Len(block_locals) = Len(open) + 1
    /\ \A k \in DOMAIN open : open[k].head <= Len(code) + 1
    /\ \E lev : Levels(lev)

Ended == status \in {"running", "returned", "aborted"}

Stage ==
    /\ Ended \/ status \in {"compiling", "rejected"}
    /\ status # "compiling" => open = <<>>
    /\ ~Ended => pc = 1
    /\ Ended => /\ pc \in DOMAIN code
                /\ Last(code).op = "ret"
                /\ \A i \in DOMAIN code : code[i].op \in JumpOps => code[i].to \in DOMAIN code

TypeInv ==
    /\ CompilerOK
    /\ OpenOK
    /\ Jumps(code, Heads(open))
    /\ Stage
    /\ FrameOK

-----------------------------------------------------------------------------
(* Names, in a program that declares a name again only out of its scope *)

Counters(c) == {d \in Decls : \E i \in DOMAIN c : c[i] = DeclareCounter(d)}

\* Every name that is bound in the scopes sc is bound once, to what codegen's map vs has.
Resolved(sc, vs, dec, locals) ==
    /\ \A i \in DOMAIN sc, n \in Names : sc[i][n] # None => sc[i][n] = vs[n]
    /\ \A i \in DOMAIN sc, j \in DOMAIN sc, n \in Names :
          sc[i][n] # None /\ sc[j][n] # None => i = j
    /\ \A n \in Names : vs[n] <= dec
    /\ \A n \in Names, m \in Names : vs[n] # None /\ vs[n] = vs[m] => n = m
    /\ \A n \in Names : vs[n] # None => n \in locals

\* Each of the m + 1 open blocks has in its locals the names of its scope, and of the
\* names in use none of an outer scope.
Released(m, sc, blocks, lev) ==
    \A k \in 0 .. m, j \in DOMAIN sc, n \in Names :
        sc[j][n] # None => /\ j = lev[k] => n \in blocks[k + 1]
                           /\ n \in blocks[k + 1] => lev[k] <= j

\* The scope around the body of a for loop holds its counter.
CounterScopes(o, m, sc, lev, counters) ==
    \A k \in 1 .. m, j \in DOMAIN sc, n \in Names :
        o[k].kind = "for" /\ j = lev[k] - 1 /\ sc[j][n] # None => sc[j][n] \in counters

Scoped(lev) ==
    /\ Resolved(scopes, variables, declared, function_locals)
    /\ Released(Len(open), scopes, block_locals, lev)
    /\ CounterScopes(open, Len(open), scopes, lev, Counters(code))

-----------------------------------------------------------------------------
(* Flow *)

\* The variables in the outer `level' scopes.
Bound(sc, level) == {d \in Decls : \E i \in 1 .. level, n \in Names : sc[i][n] = d}

States  == [live : SUBSET Decls, keyed : SUBSET Decls]
Both(s) == [live |-> s, keyed |-> s]

\* From state a, the instruction leads to state b.
Effect(i, a, b, counters) ==
    CASE i.op = "declare" -> b = [live |-> a.live \cup {i.var}, keyed |-> a.keyed \cup {i.var}]
      [] i.op = "exit"    -> /\ b = [live  |-> a.live \ i.ends,
                                     keyed |-> a.keyed \ (i.release \cup i.ends)]
                             /\ i.ends \ i.release \subseteq counters
      [] i.op = "addr"    -> b = a /\ i.var \in a.live
      [] i.op = "deref"   -> b = a /\ ("return_deref" \notin Forms => a.keyed = a.live)
      [] i.op = "ret"     -> a.keyed = {}
      [] OTHER            -> b = a

\* at[i] is the state in which control reaches instruction i, on every path.
Flow(c, heads, at) ==
    /\ at \in [Nat -> States]
    /\ at[1] = Both({})
    /\ \A i \in DOMAIN c : at[i].keyed \subseteq at[i].live
    /\ \A i \in DOMAIN c : Effect(c[i], at[i], at[i + 1], Counters(c))
    /\ \A i \in DOMAIN c \ heads : c[i].op \in JumpOps => at[c[i].to] = at[i]

\* The branches of the statements o wait for their targets in the state around them.
Waiting(o, sc, lev, at) ==
    \A k \in DOMAIN o : o[k].kind # "block" => at[o[k].head] = Both(Bound(sc, lev[k] - 1))

Reached(lev, at) ==
    status = "compiling" =>
        at[Here] = Both(Bound(scopes, Len(scopes))) /\ Waiting(open, scopes, lev, at)

-----------------------------------------------------------------------------
(* Keys *)

Keyless(d) == keyTable[d] = NoKey \/ d \in Counters(code)

Tracked(p) == p.to # None => p.key = p.of /\ p.of # Dead

Keys ==
    /\ nextKey = births + 1
    /\ \A d \in Decls : alive[d] = Dead => Keyless(d)
    /\ \A d \in Decls :
          alive[d] # Dead => keySlot[d] = alive[d] /\ keyTable[d] \in {alive[d], NoKey}
    /\ \A d \in Decls : Tracked(pointer[d])
    /\ Tracked(cell)
    /\ status \in {"compiling", "returned"} => \A d \in Decls : alive[d] = Dead
    /\ status = "compiling" => \A d \in Decls : keyTable[d] = NoKey
    /\ status = "returned" => result.key = NoKey

\* The running function is in the state that its next instruction is reached in.
Agrees(at) ==
    status = "running" =>
        \A d \in Decls :
            /\ alive[d] # Dead <=> d \in at[pc].live
            /\ d \in at[pc].keyed => keyTable[d] = alive[d]
            /\ d \notin at[pc].keyed => Keyless(d)

Sound(lev, at) ==
    /\ Levels(lev)
    /\ Scoped(lev)
    /\ Flow(code, Heads(open), at)
    /\ Reached(lev, at)

FlowInv ==
    /\ Keys
    /\ \E lev, at : Sound(lev, at) /\ Agrees(at)

-----------------------------------------------------------------------------
(* Instructions *)

LEMMA InstrTyped ==
    ASSUME NEW i \in Instr
    PROVE  /\ i.op = "declare" => i.var \in Decls
           /\ i.op = "addr" => i.ptr \in Decls /\ i.var \in Decls
           /\ i.op = "copy" => i.ptr \in Decls /\ i.from \in Decls
           /\ i.op \in {"deref", "save", "load"} => i.ptr \in Decls
           /\ i.op \in JumpOps => i.to \in Nat /\ i \in [op : JumpOps, to : Nat]
           /\ i.op = "exit" => i.release \subseteq Targets /\ i.ends \subseteq Decls
           /\ i.op = "ret" => i.ptr \in Targets
           /\ i.op \in {"declare", "addr", "copy", "deref", "save", "load", "branch", "jump",
                        "exit", "ret"}
BY DEF Instr, JumpOps

LEMMA InstrMade ==
    /\ \A d \in Decls : /\ Declare(d) \in Instr /\ DeclareCounter(d) \in Instr
                        /\ Declare(d).op = "declare" /\ Declare(d).var = d
                        /\ DeclareCounter(d).op = "declare" /\ DeclareCounter(d).var = d
                        /\ Deref(d) \in Instr /\ Deref(d).op = "deref"
                        /\ Save(d) \in Instr /\ Save(d).op = "save"
                        /\ Load(d) \in Instr /\ Load(d).op = "load"
    /\ \A p \in Decls, x \in Decls : /\ AddrOf(p, x) \in Instr /\ AddrOf(p, x).op = "addr"
                                     /\ AddrOf(p, x).var = x
                                     /\ Copy(p, x) \in Instr /\ Copy(p, x).op = "copy"
    /\ \A p \in Targets : Ret(p) \in Instr /\ Ret(p).op = "ret"
    /\ Branch \in Instr /\ Branch.op = "branch"
    /\ \A t \in Nat : Jump(t) \in Instr /\ Jump(t).op = "jump" /\ Jump(t).to = t
    /\ \A r \in SUBSET Targets, e \in SUBSET Decls :
          /\ Exit(r, e) \in Instr /\ Exit(r, e).op = "exit"
          /\ Exit(r, e).release = r /\ Exit(r, e).ends = e
BY DEF Instr, JumpOps, Declare, DeclareCounter, Deref, Save, Load, AddrOf, Copy, Ret, Branch,
       Jump, Exit

LEMMA JumpPatched ==
    ASSUME NEW i \in Instr, i.op \in JumpOps, NEW t \in Nat
    PROVE  /\ [i EXCEPT !.to = t] \in Instr
           /\ [i EXCEPT !.to = t].op = i.op
           /\ [i EXCEPT !.to = t].to = t
<1>1. i \in [op : JumpOps, to : Nat]
  BY InstrTyped
<1>2. /\ [i EXCEPT !.to = t] \in [op : JumpOps, to : Nat]
      /\ [i EXCEPT !.to = t].op = i.op
      /\ [i EXCEPT !.to = t].to = t
  BY <1>1
<1>3. QED
  BY <1>2 DEF Instr

LEMMA Appended ==
    ASSUME NEW c \in Seq(Instr), NEW i \in Instr
    PROVE  /\ Append(c, i) \in Seq(Instr)
           /\ Len(Append(c, i)) = Len(c) + 1
           /\ DOMAIN Append(c, i) = 1 .. Len(c) + 1
           /\ Len(c) \in Nat
           /\ DOMAIN c = 1 .. Len(c)
           /\ \A j \in 1 .. Len(c) : Append(c, i)[j] = c[j] /\ c[j] \in Instr
           /\ Append(c, i)[Len(c) + 1] = i
           /\ Last(Append(c, i)) = i
           /\ Append(c, i) # <<>>
BY AppendProperties, LenProperties DEF Last

LEMMA Patched ==
    ASSUME NEW c \in Seq(Instr), NEW h \in DOMAIN c, c[h].op \in JumpOps
    PROVE  /\ Patch(c, h) \in Seq(Instr)
           /\ Len(Patch(c, h)) = Len(c)
           /\ DOMAIN Patch(c, h) = DOMAIN c
           /\ Len(c) \in Nat
           /\ DOMAIN c = 1 .. Len(c)
           /\ \A j \in DOMAIN c : Patch(c, h)[j].op = c[j].op /\ c[j] \in Instr
           /\ \A j \in DOMAIN c \ {h} : Patch(c, h)[j] = c[j]
           /\ Patch(c, h)[h].to = Len(c) + 1
<1>1. Len(c) \in Nat /\ DOMAIN c = 1 .. Len(c) /\ c \in [1 .. Len(c) -> Instr]
  BY LenProperties
<1>2. c[h] \in Instr
  BY <1>1
<1>3. PICK r \in Instr, t \in Nat : r = c[h] /\ t = Len(c) + 1
  BY <1>1, <1>2
<1>4. PICK e \in Instr : e = [r EXCEPT !.to = t] /\ e.op = r.op /\ e.to = t
  BY <1>3, JumpPatched
<1>5. Patch(c, h) = [c EXCEPT ![h] = e]
  BY <1>3, <1>4 DEF Patch
<1>6. /\ Patch(c, h) \in Seq(Instr)
      /\ Len(Patch(c, h)) = Len(c)
      /\ \A j \in 1 .. Len(c) : Patch(c, h)[j] = IF j = h THEN e ELSE c[j]
  BY <1>1, <1>5, ExceptSeq
<1>7. DOMAIN Patch(c, h) = 1 .. Len(c)
  BY <1>6, LenProperties
<1>8. QED
  BY <1>1, <1>3, <1>4, <1>6, <1>7

LEMMA CountersKept ==
    /\ \A c \in Seq(Instr), i \in Instr : Counters(c) \subseteq Counters(Append(c, i))
    /\ \A c \in Seq(Instr), d \in Decls : d \in Counters(Append(c, DeclareCounter(d)))
    /\ \A c \in Seq(Instr) : \A h \in DOMAIN c :
          c[h].op \in JumpOps => Counters(c) \subseteq Counters(Patch(c, h))
<1>1. ASSUME NEW c \in Seq(Instr), NEW i \in Instr
      PROVE  Counters(c) \subseteq Counters(Append(c, i))
  BY Appended DEF Counters
<1>2. ASSUME NEW c \in Seq(Instr), NEW d \in Decls
      PROVE  d \in Counters(Append(c, DeclareCounter(d)))
  <2>1. DeclareCounter(d) \in Instr
    BY InstrMade
  <2>2. Append(c, DeclareCounter(d))[Len(c) + 1] = DeclareCounter(d)
        /\ Len(c) + 1 \in DOMAIN Append(c, DeclareCounter(d))
    BY <2>1, Appended
  <2>3. QED
    BY <2>2 DEF Counters
<1>3. ASSUME NEW c \in Seq(Instr), NEW h \in DOMAIN c, c[h].op \in JumpOps
      PROVE  Counters(c) \subseteq Counters(Patch(c, h))
  <2>1. \A d \in Decls : c[h] # DeclareCounter(d)
    BY <1>3, InstrMade DEF JumpOps
  <2>2. QED
    BY <1>3, <2>1, Patched DEF Counters
<1>4. QED
  BY <1>1, <1>2, <1>3

-----------------------------------------------------------------------------
(* Jumps and levels *)

LEMMA JumpsAppend ==
    ASSUME NEW c, NEW heads, Jumps(c, heads), NEW i \in Instr,
           NEW more, more \subseteq {Len(c) + 1}, more # {} => i.op \in JumpOps,
           i.op \in JumpOps => more # {} \/ i.to \in 1 .. Len(c) + 1
    PROVE  Jumps(Append(c, i), heads \cup more)
<1>1. c \in Seq(Instr) /\ Len(c) \in Nat /\ DOMAIN c = 1 .. Len(c)
  BY Appended DEF Jumps
<1>2. PICK n \in Nat, d \in Seq(Instr) : n = Len(c) /\ d = Append(c, i)
  BY <1>1, Appended
<1>3. /\ Len(d) = n + 1 /\ DOMAIN d = 1 .. n + 1
      /\ \A j \in 1 .. n : d[j] = c[j]
      /\ d[n + 1] = i
  BY <1>1, <1>2, Appended
<1>4. heads \subseteq 1 .. n /\ more \subseteq {n + 1}
  BY <1>1, <1>2 DEF Jumps
<1>5. \A h \in heads \cup more : d[h].op \in JumpOps
  BY <1>3, <1>4 DEF Jumps
<1>6. ASSUME NEW j \in 1 .. n + 1, j \notin heads \cup more, d[j].op \in JumpOps
      PROVE  d[j].to \in 1 .. n + 2
  <2>1. CASE j = n + 1
    <3>1. i.op \in JumpOps /\ more = {}
      BY <1>3, <1>4, <1>6, <2>1
    <3>2. i.to \in 1 .. n + 1
      BY <1>2, <3>1
    <3>3. QED
      BY <1>3, <2>1, <3>2
  <2>2. CASE j \in 1 .. n
    <3>1. c[j].to \in 1 .. n + 1
      BY <1>1, <1>2, <1>3, <1>6, <2>2 DEF Jumps
    <3>2. QED
      BY <1>3, <2>2, <3>1
  <2>3. QED
    BY <2>1, <2>2
<1>7. heads \cup more \subseteq 1 .. n + 1
  BY <1>4
<1>8. Jumps(d, heads \cup more)
  BY <1>3, <1>5, <1>6, <1>7 DEF Jumps
<1>9. QED
  BY <1>2, <1>8

LEMMA JumpsPatch ==
    ASSUME NEW c, NEW heads, Jumps(c, heads), NEW h \in heads,
           NEW left, left \subseteq heads, heads \ {h} \subseteq left
    PROVE  Jumps(Patch(c, h), left)
<1>1. c \in Seq(Instr) /\ h \in DOMAIN c /\ c[h].op \in JumpOps
  BY DEF Jumps
<1>2. QED
  BY <1>1, Patched DEF Jumps

LEMMA CutIs ==
    ASSUME NEW S, NEW s \in Seq(S), NEW n \in Nat, n <= Len(s)
    PROVE  /\ SubSeq(s, 1, n) \in Seq(S)
           /\ Len(SubSeq(s, 1, n)) = n
           /\ DOMAIN SubSeq(s, 1, n) = 1 .. n
           /\ \A i \in 1 .. n : SubSeq(s, 1, n)[i] = s[i]
<1>1. \A i \in 1 .. n : s[i] \in S
  BY LenProperties
<1>2. /\ SubSeq(s, 1, n) \in Seq(S)
      /\ Len(SubSeq(s, 1, n)) = IF 1 <= n THEN n - 1 + 1 ELSE 0
      /\ \A i \in 1 .. n - 1 + 1 : SubSeq(s, 1, n)[i] = s[1 + i - 1]
  BY <1>1, SubSeqProperties
<1>3. QED
  BY <1>2, LenProperties

LEMMA FrontIs ==
    ASSUME NEW S, NEW s \in Seq(S), Len(s) > 0
    PROVE  /\ Front(s) \in Seq(S)
           /\ Len(Front(s)) = Len(s) - 1
           /\ DOMAIN Front(s) = 1 .. Len(s) - 1
           /\ DOMAIN s = 1 .. Len(s)
           /\ Len(s) \in Nat
           /\ \A i \in 1 .. Len(s) - 1 : Front(s)[i] = s[i]
           /\ Last(s) = s[Len(s)]
           /\ Last(s) \in S
<1>1. Len(s) \in Nat /\ Len(s) - 1 \in Nat /\ DOMAIN s = 1 .. Len(s) /\ s[Len(s)] \in S
  BY LenProperties
<1>2. QED
  BY <1>1, CutIs DEF Front, Last

LEMMA PushIs ==
    ASSUME NEW S, NEW s \in Seq(S), NEW e \in S
    PROVE  /\ Append(s, e) \in Seq(S)
           /\ Len(Append(s, e)) = Len(s) + 1
           /\ DOMAIN Append(s, e) = 1 .. Len(s) + 1
           /\ DOMAIN s = 1 .. Len(s)
           /\ Len(s) \in Nat
           /\ \A i \in 1 .. Len(s) : Append(s, e)[i] = s[i]
           /\ Append(s, e)[Len(s) + 1] = e
BY AppendProperties, LenProperties

LEMMA HeadsPush ==
    ASSUME NEW o \in Seq(Block), NEW b \in Block
    PROVE  Heads(Append(o, b)) = Heads(o) \cup (IF b.kind = "block" THEN {} ELSE {b.head})
BY PushIs DEF Heads

LEMMA HeadsPop ==
    ASSUME NEW o \in Seq(Block), Len(o) > 0
    PROVE  /\ Heads(Front(o)) \subseteq Heads(o)
           /\ Last(o).kind = "block" => Heads(Front(o)) = Heads(o)
           /\ Last(o).kind # "block" => /\ Last(o).head \in Heads(o)
                                        /\ Heads(o) \ {Last(o).head} \subseteq Heads(Front(o))
<1>1. PICK m \in Nat : m = Len(o) /\ m > 0
  BY LenProperties
<1>2. /\ DOMAIN o = 1 .. m /\ DOMAIN Front(o) = 1 .. m - 1
      /\ \A i \in 1 .. m - 1 : Front(o)[i] = o[i]
      /\ Last(o) = o[m]
  BY <1>1, FrontIs
<1>3. Heads(Front(o)) = {o[k].head : k \in {j \in 1 .. m - 1 : o[j].kind # "block"}}
  BY <1>2 DEF Heads
<1>4. Heads(o) = {o[k].head : k \in {j \in 1 .. m : o[j].kind # "block"}}
  BY <1>2 DEF Heads
<1>5. 1 .. m = (1 .. m - 1) \cup {m}
  BY <1>1
<1>6. QED
  BY <1>2, <1>3, <1>4, <1>5
LEMMA LevelsDef ==
    ASSUME NEW lev, NEW o, NEW n, NEW m, m = Len(o)
    PROVE  LevelsOf(lev, o, n) <=>
              /\ lev \in [Nat -> Nat]
              /\ lev[0] = 1
              /\ \A k \in 1 .. m : lev[k] = lev[k - 1] + Width(o[k].kind)
              /\ \A k \in 0 .. m, j \in 0 .. m : j < k => lev[j] < lev[k]
              /\ lev[m] = n
BY Zenon DEF LevelsOf

LEMMA LevelsTop ==
    ASSUME NEW o \in Seq(Block), NEW lev, NEW n, LevelsOf(lev, o, n)
    PROVE  /\ Len(o) \in Nat
           /\ \A k \in 0 .. Len(o) : lev[k] \in 1 .. n
           /\ n \in Nat \ {0}
           /\ Len(o) = 0 => n = 1
           /\ Len(o) > 0 => /\ Last(o) \in Block
                            /\ Last(o) = o[Len(o)]
                            /\ lev[Len(o) - 1] = n - Width(Last(o).kind)
                            /\ n - Width(Last(o).kind) \in Nat \ {0}
<1>1. PICK m \in Nat : m = Len(o)
  BY LenProperties
<1>2. /\ lev \in [Nat -> Nat]
      /\ lev[0] = 1
      /\ \A k \in 0 .. m, j \in 0 .. m : j < k => lev[j] < lev[k]
      /\ lev[m] = n
  BY <1>1, Zenon DEF LevelsOf
<1>3. n \in Nat
  BY <1>2
<1>4. ASSUME NEW k \in 0 .. m PROVE lev[k] \in 1 .. n
  <2>1. k \in Nat /\ lev[k] \in Nat /\ (0 < k => lev[0] < lev[k]) /\ (k < m => lev[k] < lev[m])
    BY <1>2
  <2>2. PICK x \in Nat, z \in Nat : x = lev[k] /\ z = n
    BY <1>3, <2>1
  <2>3. (k = 0 => x = 1) /\ (0 < k => 1 < x) /\ (k = m => x = z) /\ (k < m => x < z)
    BY <1>2, <2>1, <2>2
  <2>4. x \in 1 .. z
    BY <2>3
  <2>5. QED
    BY <2>2, <2>4
<1>5. n # 0 /\ (m = 0 => n = 1)
  <2>1. lev[0] \in 1 .. n
    BY <1>4
  <2>2. QED
    BY <1>2, <1>3, <2>1
<1>6. ASSUME m > 0
      PROVE  /\ Last(o) \in Block
             /\ Last(o) = o[m]
             /\ lev[m - 1] = n - Width(Last(o).kind)
             /\ n - Width(Last(o).kind) \in Nat \ {0}
  <2>1. Last(o) \in Block /\ Last(o) = o[m]
    BY <1>1, <1>6, FrontIs
  <2>2. PICK w \in {1, 2} : w = Width(o[m].kind)
    BY DEF Width
  <2>3. lev[m] = lev[m - 1] + w
    <3>1. m \in 1 .. m
      BY <1>6
    <3>2. QED
      BY <1>1, <2>2, <3>1, Zenon DEF LevelsOf
  <2>4. m - 1 \in 0 .. m
    BY <1>6
  <2>5. lev[m - 1] \in 1 .. n
    BY <1>4, <2>4
  <2>6. PICK l \in Nat : l = lev[m - 1] /\ l # 0
    BY <1>3, <2>5
  <2>7. n = l + w
    BY <1>2, <2>3, <2>6
  <2>8. QED
    BY <2>1, <2>2, <2>6, <2>7
<1>7. QED
  BY <1>1, <1>3, <1>4, <1>5, <1>6

LEMMA LevelsPop ==
    ASSUME NEW o \in Seq(Block), NEW lev, NEW n, LevelsOf(lev, o, n), Len(o) > 0
    PROVE  LevelsOf(lev, Front(o), n - Width(Last(o).kind))
<1>1. PICK m \in Nat : m = Len(o)
  BY LenProperties
<1>2. PICK f \in Seq(Block) : f = Front(o)
  BY FrontIs
<1>3. Len(f) = m - 1 /\ \A k \in 1 .. m - 1 : f[k] = o[k]
  BY <1>1, <1>2, FrontIs
<1>4. lev[m - 1] = n - Width(Last(o).kind)
  BY <1>1, LevelsTop
<1>5. \A k \in 1 .. m - 1 : lev[k] = lev[k - 1] + Width(f[k].kind)
  <2>1. \A k \in 1 .. m : lev[k] = lev[k - 1] + Width(o[k].kind)
    BY <1>1, Zenon DEF LevelsOf
  <2>2. 1 .. m - 1 \subseteq 1 .. m
    OBVIOUS
  <2>3. QED
    BY <1>3, <2>1, <2>2, Zenon
<1>6. \A k \in 0 .. m - 1, j \in 0 .. m - 1 : j < k => lev[j] < lev[k]
  <2>1. \A k \in 0 .. m, j \in 0 .. m : j < k => lev[j] < lev[k]
    BY <1>1, Zenon DEF LevelsOf
  <2>2. 0 .. m - 1 \subseteq 0 .. m
    OBVIOUS
  <2>3. QED
    BY <2>1, <2>2, Zenon
<1>7. lev \in [Nat -> Nat] /\ lev[0] = 1
  BY <1>1, Zenon DEF LevelsOf
<1>8. LevelsOf(lev, f, n - Width(Last(o).kind))
  BY <1>3, <1>4, <1>5, <1>6, <1>7, LevelsDef
<1>9. QED
  BY <1>2, <1>8

LEMMA LevelsPush ==
    ASSUME NEW o \in Seq(Block), NEW lev, NEW n, LevelsOf(lev, o, n), NEW b \in Block
    PROVE  \E up : /\ LevelsOf(up, Append(o, b), n + Width(b.kind))
                   /\ \A k \in 0 .. Len(o) : up[k] = lev[k]
                   /\ up[Len(o) + 1] = n + Width(b.kind)
<1>1. PICK m \in Nat : m = Len(o)
  BY LenProperties
<1>2. PICK a \in Seq(Block) : a = Append(o, b)
  BY PushIs
<1>3. Len(a) = m + 1 /\ (\A k \in 1 .. m : a[k] = o[k]) /\ a[m + 1] = b
  BY <1>1, <1>2, PushIs
<1>4. PICK w \in {1, 2} : w = Width(b.kind)
  BY DEF Width
<1>5. /\ lev \in [Nat -> Nat]
      /\ lev[0] = 1
      /\ \A k \in 1 .. m : lev[k] = lev[k - 1] + Width(o[k].kind)
      /\ \A k \in 0 .. m, j \in 0 .. m : j < k => lev[j] < lev[k]
      /\ lev[m] = n
  BY <1>1, Zenon DEF LevelsOf
<1>6. n \in Nat /\ \A k \in 0 .. m : lev[k] \in 1 .. n
  BY <1>1, LevelsTop
<1>7. PICK up : up = [lev EXCEPT ![m + 1] = n + w]
  OBVIOUS
<1>8. /\ up \in [Nat -> Nat]
      /\ \A k \in 0 .. m : up[k] = lev[k]
      /\ up[m + 1] = n + w
  <2>1. lev \in [Nat -> Nat] /\ n + w \in Nat /\ m + 1 \in Nat
    BY <1>5, <1>6
  <2>2. \A k \in 0 .. m : k \in Nat /\ k # m + 1
    OBVIOUS
  <2>3. QED
    BY <1>7, <2>1, <2>2, Zenon
<1>9. \A k \in 1 .. m + 1 : up[k] = up[k - 1] + Width(a[k].kind)
  <2>1. ASSUME NEW k \in 1 .. m PROVE up[k] = up[k - 1] + Width(a[k].kind)
    <3>1. k \in 0 .. m /\ k - 1 \in 0 .. m
      OBVIOUS
    <3>2. QED
      BY <1>3, <1>5, <1>8, <3>1, Zenon
  <2>2. up[m + 1] = up[m + 1 - 1] + Width(a[m + 1].kind)
    <3>1. m \in 0 .. m /\ m + 1 - 1 = m
      OBVIOUS
    <3>2. QED
      BY <1>3, <1>4, <1>5, <1>8, <3>1, Zenon
  <2>3. \A k \in 1 .. m + 1 : k \in 1 .. m \/ k = m + 1
    OBVIOUS
  <2>4. ASSUME NEW k \in 1 .. m + 1 PROVE up[k] = up[k - 1] + Width(a[k].kind)
    <3>1. CASE k = m + 1
      BY <2>2, <3>1, SMT
    <3>2. QED
      BY <2>1, <2>3, <3>1, Zenon
  <2>5. QED
    BY <2>4
<1>10. ASSUME NEW k \in 0 .. m + 1, NEW j \in 0 .. m + 1, j < k PROVE up[j] < up[k]
  <2>1. CASE k \in 0 .. m
    <3>1. j \in 0 .. m
      BY <1>10, <2>1
    <3>2. lev[j] < lev[k]
      BY <1>5, <1>10, <2>1, <3>1
    <3>3. QED
      BY <1>8, <2>1, <3>1, <3>2, Zenon
  <2>2. CASE k = m + 1
    <3>1. j \in 0 .. m
      BY <1>10, <2>2
    <3>2. up[j] \in 1 .. n
      BY <1>6, <1>8, <3>1, Zenon
    <3>3. n < n + w
      BY <1>6
    <3>4. up[k] = n + w
      BY <1>8, <2>2, Zenon
    <3>5. QED
      BY <1>6, <3>2, <3>3, <3>4
  <2>3. QED
    BY <2>1, <2>2
<1>11. up[0] = 1
  <2>1. 0 \in 0 .. m
    OBVIOUS
  <2>2. QED
    BY <1>5, <1>8, <2>1, Zenon
<1>12. LevelsOf(up, a, n + w)
  BY <1>3, <1>8, <1>9, <1>10, <1>11, LevelsDef
<1>13. QED
  BY <1>1, <1>2, <1>4, <1>8, <1>12, Zenon

-----------------------------------------------------------------------------
(* Types *)

LEMMA Emitted ==
    ASSUME NEW S, NEW c \in Seq(S), NEW a \in S, NEW b \in S, NEW d \in S
    PROVE  /\ c \o <<>> = c
           /\ c \o <<a>> = Append(c, a)
           /\ c \o <<a, b>> = Append(Append(c, a), b)
           /\ c \o <<a, b, d>> = Append(Append(Append(c, a), b), d)
<1>1. /\ <<a>> \in Seq(S) /\ <<b>> \in Seq(S) /\ <<d>> \in Seq(S)
      /\ <<a, b>> \in Seq(S) /\ <<a, b, d>> \in Seq(S)
  OBVIOUS
<1>2. <<a>> \o <<b>> = <<a, b>> /\ <<a, b>> \o <<d>> = <<a, b, d>>
  <2>1. PICK s \in Seq(S), t \in Seq(S), u \in Seq(S), v \in Seq(S), w \in Seq(S) :
           s = <<a>> /\ t = <<b>> /\ u = <<d>> /\ v = <<a, b>> /\ w = <<a, b, d>>
    BY <1>1
  <2>2. /\ Len(s) = 1 /\ Len(t) = 1 /\ Len(u) = 1 /\ Len(v) = 2 /\ Len(w) = 3
        /\ s[1] = a /\ t[1] = b /\ u[1] = d /\ v[1] = a /\ v[2] = b
        /\ w[1] = a /\ w[2] = b /\ w[3] = d
    BY <2>1
  <2>3. s \o t = v
    <3>1. PICK z \in Seq(S) : z = Append(s, b)
      BY PushIs
    <3>2. Len(z) = Len(s) + 1 /\ (\A i \in 1 .. Len(s) : z[i] = s[i]) /\ z[Len(s) + 1] = b
      BY <3>1, PushIs
    <3>3. Len(z) = Len(v) /\ \A i \in 1 .. Len(z) : z[i] = v[i]
      BY <2>2, <3>2
    <3>4. z = v
      BY <3>3, SeqEqual
    <3>5. QED
      BY <2>1, <3>1, <3>4, AppendIsConcat
  <2>4. v \o u = w
    <3>1. PICK z \in Seq(S) : z = Append(v, d)
      BY PushIs
    <3>2. Len(z) = Len(v) + 1 /\ (\A i \in 1 .. Len(v) : z[i] = v[i]) /\ z[Len(v) + 1] = d
      BY <3>1, PushIs
    <3>3. Len(z) = Len(w) /\ \A i \in 1 .. Len(z) : z[i] = w[i]
      BY <2>2, <3>2
    <3>4. z = w
      BY <3>3, SeqEqual
    <3>5. QED
      BY <2>1, <3>1, <3>4, AppendIsConcat
  <2>5. QED
    BY <2>1, <2>3, <2>4
<1>3. Append(c, a) \in Seq(S) /\ c \o <<a>> = Append(c, a)
  BY AppendIsConcat, PushIs
<1>4. /\ Append(Append(c, a), b) \in Seq(S)
      /\ Append(Append(c, a), b) = (c \o <<a>>) \o <<b>>
  <2>1. PICK e \in Seq(S) : e = Append(c, a)
    BY <1>3
  <2>2. Append(e, b) \in Seq(S) /\ Append(e, b) = e \o <<b>>
    BY AppendIsConcat, PushIs
  <2>3. QED
    BY <1>3, <2>1, <2>2
<1>5. c \o <<a, b>> = Append(Append(c, a), b)
  BY <1>1, <1>2, <1>4, ConcatAssociative
<1>6. Append(Append(Append(c, a), b), d) = (c \o <<a, b>>) \o <<d>>
  BY <1>4, <1>5, AppendIsConcat
<1>7. c \o <<a, b, d>> = Append(Append(Append(c, a), b), d)
  BY <1>1, <1>2, <1>6, ConcatAssociative
<1>8. QED
  BY <1>3, <1>5, <1>7, ConcatEmptySeq

LEMMA JumpsPlain ==
    ASSUME NEW c, NEW heads, Jumps(c, heads), NEW i \in Instr, i.op \notin JumpOps
    PROVE  /\ Jumps(Append(c, i), heads)
           /\ Append(c, i) \in Seq(Instr)
           /\ Len(c) \in Nat
           /\ Len(Append(c, i)) = Len(c) + 1
<1>1. Jumps(Append(c, i), heads \cup {})
  BY JumpsAppend
<1>2. QED
  BY <1>1, Appended DEF Jumps

LEMMA PlainOps ==
    \A o \in {"declare", "addr", "copy", "deref", "save", "load", "exit", "ret"} : o \notin JumpOps
BY DEF JumpOps

LEMMA MadeOfNames ==
    ASSUME CompilerOK
    PROVE  /\ \A names \in SUBSET Names : Allocas(names) \subseteq Targets
           /\ \A i \in DOMAIN scopes : Ends(scopes[i]) \subseteq Decls
           /\ Len(block_locals) > 0 => Last(block_locals) \in SUBSET Names
           /\ function_locals \in SUBSET Names
           /\ Len(scopes) > 0 => Last(scopes) \in Scope /\ Ends(Last(scopes)) \subseteq Decls
           /\ \A n \in Names : Visible(n) => \E i \in DOMAIN scopes : scopes[i][n] # None
           /\ \A n \in Names : Visible(n) => variables[n] \in Decls
<1>1. variables \in [Names -> Targets] /\ scopes \in Seq(Scope)
  BY DEF CompilerOK
<1>2. \A names \in SUBSET Names : Allocas(names) \subseteq Targets
  BY <1>1 DEF Allocas
<1>3. \A s \in Scope : Ends(s) \subseteq Decls
  BY DEF Ends, Targets, Scope
<1>4. \A i \in DOMAIN scopes : scopes[i] \in Scope
  BY <1>1, LenProperties
<1>5. Len(block_locals) > 0 => Last(block_locals) \in SUBSET Names
  BY FrontIs DEF CompilerOK
<1>6. Len(scopes) > 0 => Last(scopes) \in Scope
  BY <1>1, FrontIs
<1>7. \A n \in Names : Visible(n) => \E i \in DOMAIN scopes : scopes[i][n] # None
  BY DEF Visible, Innermost
<1>8. \A n \in Names : Visible(n) => variables[n] \in Decls
  BY <1>1, <1>7 DEF CompilerOK, Targets
<1>9. QED
  BY <1>2, <1>3, <1>4, <1>5, <1>6, <1>7, <1>8 DEF CompilerOK

LEMMA BlockExitTyped ==
    ASSUME CompilerOK, OpenOK
    PROVE  /\ BlockExit \in Instr
           /\ BlockExit.op = "exit"
           /\ BlockExit.release = Allocas(Last(block_locals))
           /\ BlockExit.ends = Ends(Last(scopes))
           /\ Len(scopes) \in Nat \ {0} /\ Len(block_locals) > 0 /\ Len(open) \in Nat
<1>1. PICK lev : Levels(lev)
  BY DEF OpenOK
<1>2. Len(scopes) \in Nat \ {0} /\ Len(open) \in Nat
  BY <1>1, LevelsTop DEF OpenOK, Levels
<1>3. Len(block_locals) > 0
  BY <1>2 DEF OpenOK
<1>4. Allocas(Last(block_locals)) \in SUBSET Targets /\ Ends(Last(scopes)) \in SUBSET Decls
  BY <1>2, <1>3, MadeOfNames
<1>5. QED
  BY <1>2, <1>3, <1>4, InstrMade DEF BlockExit

\* A step of the compiler that goes on compiling.
LEMMA StillCompiling ==
    ASSUME Stage, FrameOK, status = "compiling",
           UNCHANGED <<status, pc, frame, library, cell, result, lives, calls>>
    PROVE  Stage' /\ FrameOK'
BY DEF Stage, FrameOK, Ended, frame, library, lives

\* A step that leaves what is open as it is.
LEMMA OpenSame ==
    ASSUME OpenOK, UNCHANGED open, Len(block_locals') = Len(block_locals),
           Len(scopes') = Len(scopes), code \in Seq(Instr), code' \in Seq(Instr),
           Len(code) <= Len(code')
    PROVE  OpenOK'
<1>1. PICK lev : Levels(lev)
  BY DEF OpenOK
<1>2. Levels(lev)'
  BY <1>1 DEF Levels
<1>3. \A k \in DOMAIN open : open'[k].head <= Len(code') + 1
  <2>1. ASSUME NEW k \in DOMAIN open PROVE open[k].head <= Len(code') + 1
    <3>1. open[k].head \in Nat /\ open[k].head <= Len(code) + 1
      <4>1. open \in [1 .. Len(open) -> Block] /\ DOMAIN open = 1 .. Len(open)
        BY LenProperties DEF OpenOK
      <4>2. open[k] \in Block /\ open[k].head <= Len(code) + 1
        BY <4>1 DEF OpenOK
      <4>3. QED
        BY <4>2 DEF Block
    <3>2. Len(code) \in Nat /\ Len(code') \in Nat
      BY LenProperties
    <3>3. QED
      BY <3>1, <3>2
  <2>2. QED
    BY <2>1
<1>4. QED
  BY <1>2, <1>3 DEF OpenOK

LEMMA ReplaceLast ==
    ASSUME NEW S, NEW s \in Seq(S), Len(s) > 0, NEW e \in S
    PROVE  /\ [s EXCEPT ![Len(s)] = e] \in Seq(S)
           /\ Len([s EXCEPT ![Len(s)] = e]) = Len(s)
           /\ DOMAIN [s EXCEPT ![Len(s)] = e] = 1 .. Len(s)
           /\ \A i \in 1 .. Len(s) : [s EXCEPT ![Len(s)] = e][i] = IF i = Len(s) THEN e ELSE s[i]
<1>1. Len(s) \in Nat
  BY LenProperties
<1>2. PICK l \in 1 .. Len(s) : l = Len(s)
  BY <1>1
<1>3. /\ [s EXCEPT ![l] = e] \in Seq(S)
      /\ Len([s EXCEPT ![l] = e]) = Len(s)
      /\ \A i \in 1 .. Len(s) : [s EXCEPT ![l] = e][i] = IF i = l THEN e ELSE s[i]
  BY ExceptSeq
<1>4. DOMAIN [s EXCEPT ![l] = e] = 1 .. Len(s)
  BY <1>3, LenProperties
<1>5. QED
  BY <1>2, <1>3, <1>4

Bind(sc, n, d) == [sc EXCEPT ![Len(sc)][n] = d]

LEMMA BindIs ==
    ASSUME NEW sc \in Seq(Scope), Len(sc) > 0, NEW n \in Names, NEW d \in Decls
    PROVE  /\ Bind(sc, n, d) \in Seq(Scope)
           /\ Len(Bind(sc, n, d)) = Len(sc)
           /\ Len(sc) \in Nat
           /\ DOMAIN Bind(sc, n, d) = 1 .. Len(sc) /\ DOMAIN sc = 1 .. Len(sc)
           /\ \A i \in 1 .. Len(sc), m \in Names :
                 Bind(sc, n, d)[i][m] = IF i = Len(sc) /\ m = n THEN d ELSE sc[i][m]
<1>1. Len(sc) \in Nat /\ DOMAIN sc = 1 .. Len(sc) /\ sc[Len(sc)] \in Scope
  BY LenProperties
<1>2. PICK top \in Scope : top = sc[Len(sc)]
  BY <1>1
<1>3. PICK new \in Scope : new = [top EXCEPT ![n] = d]
  BY <1>2 DEF Targets, Scope
<1>4. PICK bind \in Seq(Scope) :
         /\ bind = [sc EXCEPT ![Len(sc)] = new]
         /\ Len(bind) = Len(sc)
         /\ DOMAIN bind = 1 .. Len(sc)
         /\ \A i \in 1 .. Len(sc) : bind[i] = IF i = Len(sc) THEN new ELSE sc[i]
  BY ReplaceLast
<1>5. Bind(sc, n, d) = bind
  BY <1>2, <1>3, <1>4 DEF Bind
<1>6. \A m \in Names : new[m] = IF m = n THEN d ELSE top[m]
  BY <1>3 DEF Scope
<1>7. \A i \in 1 .. Len(sc), m \in Names :
         bind[i][m] = IF i = Len(sc) /\ m = n THEN d ELSE sc[i][m]
  BY <1>2, <1>4, <1>6
<1>8. QED
  BY <1>1, <1>4, <1>5, <1>7

LEMMA WithLocalIs ==
    ASSUME CompilerOK, OpenOK, NEW n \in Names
    PROVE  /\ WithLocal(n) \in Seq(SUBSET Names)
           /\ Len(WithLocal(n)) = Len(block_locals)
           /\ Len(block_locals) \in Nat \ {0}
           /\ \A k \in 1 .. Len(block_locals) :
                 WithLocal(n)[k] = IF k = Len(block_locals) THEN block_locals[k] \cup {n}
                                   ELSE block_locals[k]
<1>1. PICK b \in Seq(SUBSET Names), l \in Nat \ {0} : b = block_locals /\ l = Len(b)
  BY BlockExitTyped, LenProperties DEF CompilerOK
<1>2. b[l] \in SUBSET Names
  BY <1>1, LenProperties
<1>3. PICK e \in SUBSET Names : e = b[l] \cup {n}
  BY <1>2
<1>4. WithLocal(n) = [b EXCEPT ![l] = e]
  BY <1>1, <1>3 DEF WithLocal
<1>5. /\ [b EXCEPT ![l] = e] \in Seq(SUBSET Names)
      /\ Len([b EXCEPT ![l] = e]) = l
      /\ \A k \in 1 .. l : [b EXCEPT ![l] = e][k] = IF k = l THEN e ELSE b[k]
  BY <1>1, ExceptSeq
<1>6. QED
  BY <1>1, <1>3, <1>4, <1>5

LEMMA DeclFacts ==
    ASSUME TypeInv, NEW n \in Names, Decl(n)
    PROVE  \E d \in Decls :
              /\ d = declared + 1
              /\ status = "compiling" /\ stmts < MaxStmts /\ stmts' = stmts + 1
              /\ UNCHANGED <<status, pc, frame, library, cell, result, lives, calls>>
              /\ declared' = d
              /\ variables' = [variables EXCEPT ![n] = d]
              /\ function_locals' = function_locals \cup {n}
              /\ block_locals' = WithLocal(n)
              /\ code' = Append(code, Declare(d))
              /\ UNCHANGED open
              /\ Shadowing \/ ~Visible(n)
              /\ Len(scopes) \in Nat \ {0}
              /\ scopes' \in Seq(Scope) /\ Len(scopes') = Len(scopes)
              /\ DOMAIN scopes' = 1 .. Len(scopes) /\ DOMAIN scopes = 1 .. Len(scopes)
              /\ \A i \in 1 .. Len(scopes), m \in Names :
                    scopes'[i][m] = IF i = Len(scopes) /\ m = n THEN d ELSE scopes[i][m]
<1>1. /\ code \in Seq(Instr) /\ declared \in 0 .. stmts /\ stmts \in 0 .. MaxStmts
      /\ scopes \in Seq(Scope)
  BY DEF TypeInv, CompilerOK, Jumps
<1>2. status = "compiling" /\ stmts < MaxStmts /\ stmts' = stmts + 1
  BY DEF Decl, Compile
<1>3. PICK d \in Decls : d = declared + 1
  BY <1>1, <1>2, NamesAssumption DEF Decls
<1>4. PICK i \in Instr : i = Declare(d)
  BY InstrMade
<1>5. /\ UNCHANGED <<status, pc, frame, library, cell, result, lives, calls>>
      /\ declared' = d
      /\ variables' = [variables EXCEPT ![n] = d]
      /\ function_locals' = function_locals \cup {n}
      /\ block_locals' = WithLocal(n)
      /\ UNCHANGED open
      /\ Shadowing \/ ~Visible(n)
  BY <1>3 DEF Decl, Compile, AddLocal, MayDeclare
<1>6. code' = Append(code, Declare(d))
  <2>1. code' = code \o <<i>>
    BY <1>3, <1>4 DEF Decl, Emit
  <2>2. QED
    BY <1>1, <1>4, <2>1, Emitted
<1>7. scopes' = Bind(scopes, n, d)
  BY <1>3 DEF Decl, Bind
<1>8. Len(scopes) \in Nat \ {0} /\ DOMAIN scopes = 1 .. Len(scopes)
  BY <1>1, BlockExitTyped, LenProperties DEF TypeInv
<1>9. /\ scopes' \in Seq(Scope) /\ Len(scopes') = Len(scopes)
      /\ DOMAIN scopes' = 1 .. Len(scopes)
      /\ \A j \in 1 .. Len(scopes), m \in Names :
            scopes'[j][m] = IF j = Len(scopes) /\ m = n THEN d ELSE scopes[j][m]
  <2>1. PICK sc \in Seq(Scope) : sc = scopes /\ Len(sc) > 0
    BY <1>1, <1>8
  <2>2. Bind(sc, n, d) \in Seq(Scope) /\ Len(Bind(sc, n, d)) = Len(sc)
    BY <2>1, BindIs
  <2>3. DOMAIN Bind(sc, n, d) = 1 .. Len(sc)
    BY <2>1, BindIs
  <2>4. \A j \in 1 .. Len(sc), m \in Names :
            Bind(sc, n, d)[j][m] = IF j = Len(sc) /\ m = n THEN d ELSE sc[j][m]
    BY <2>1, BindIs
  <2>5. QED
    BY <1>7, <2>1, <2>2, <2>3, <2>4
<1>10. QED
  BY <1>2, <1>3, <1>5, <1>6, <1>8, <1>9

LEMMA DeclType ==
    ASSUME TypeInv, NEW n \in Names, Decl(n)
    PROVE  TypeInv'
<1>1. PICK d \in Decls :
         /\ d = declared + 1
         /\ status = "compiling" /\ stmts < MaxStmts /\ stmts' = stmts + 1
         /\ UNCHANGED <<status, pc, frame, library, cell, result, lives, calls>>
         /\ declared' = d
         /\ variables' = [variables EXCEPT ![n] = d]
         /\ function_locals' = function_locals \cup {n}
         /\ block_locals' = WithLocal(n)
         /\ code' = Append(code, Declare(d))
         /\ UNCHANGED open
         /\ Shadowing \/ ~Visible(n)
         /\ Len(scopes) \in Nat \ {0}
         /\ scopes' \in Seq(Scope) /\ Len(scopes') = Len(scopes)
         /\ DOMAIN scopes' = 1 .. Len(scopes) /\ DOMAIN scopes = 1 .. Len(scopes)
         /\ \A i \in 1 .. Len(scopes), m \in Names :
               scopes'[i][m] = IF i = Len(scopes) /\ m = n THEN d ELSE scopes[i][m]
  BY DeclFacts
<1>2. d \in Targets /\ d # None
  BY DEF Decls, Targets, None
<1>3. block_locals' \in Seq(SUBSET Names) /\ Len(block_locals') = Len(block_locals)
  BY <1>1, WithLocalIs DEF TypeInv
<1>4. /\ variables' \in [Names -> Targets]
      /\ \A m \in Names : variables'[m] = IF m = n THEN d ELSE variables[m]
  BY <1>1, <1>2 DEF TypeInv, CompilerOK
<1>5. CompilerOK'
  <2>1. declared' \in 0 .. stmts' /\ stmts' \in 0 .. MaxStmts
    <3>1. declared \in 0 .. stmts /\ stmts \in 0 .. MaxStmts
      BY DEF TypeInv, CompilerOK
    <3>2. stmts < MaxStmts /\ stmts' = stmts + 1 /\ declared' = declared + 1
      BY <1>1
    <3>3. QED
      BY <3>1, <3>2, NamesAssumption
  <2>2. \A i \in DOMAIN scopes', m \in Names : scopes'[i][m] # None => variables'[m] # None
    <3>1. \A i \in DOMAIN scopes, m \in Names : scopes[i][m] # None => variables[m] # None
      BY DEF TypeInv, CompilerOK
    <3>2. \A i \in DOMAIN scopes', m \in Names :
             /\ i \in DOMAIN scopes
             /\ scopes'[i][m] = IF i = Len(scopes) /\ m = n THEN d ELSE scopes[i][m]
      BY <1>1
    <3>3. QED
      BY <1>2, <1>4, <3>1, <3>2
  <2>3. function_locals' \subseteq Names
    BY <1>1 DEF TypeInv, CompilerOK
  <2>4. QED
    BY <1>1, <1>3, <1>4, <2>1, <2>2, <2>3 DEF CompilerOK
<1>6. Declare(d) \in Instr /\ Declare(d).op \notin JumpOps /\ code \in Seq(Instr)
  BY InstrMade, PlainOps DEF TypeInv, Jumps
<1>7. Jumps(code', Heads(open'))
  BY <1>1, <1>6, JumpsPlain DEF TypeInv
<1>8. OpenOK'
  <2>1. PICK i \in Instr : i = Declare(d)
    BY <1>6
  <2>2. Append(code, i) \in Seq(Instr) /\ Len(Append(code, i)) = Len(code) + 1 /\ Len(code) \in Nat
    BY <1>6, Appended
  <2>3. code' = Append(code, i)
    BY <1>1, <2>1
  <2>4. code' \in Seq(Instr) /\ Len(code) <= Len(code')
    BY <2>2, <2>3
  <2>5. UNCHANGED open /\ Len(scopes') = Len(scopes)
    BY <1>1
  <2>6. QED
    BY <1>3, <1>6, <2>4, <2>5, OpenSame DEF TypeInv
<1>9. Stage' /\ FrameOK'
  BY <1>1, StillCompiling DEF TypeInv
<1>10. QED
  BY <1>5, <1>7, <1>8, <1>9 DEF TypeInv

\* A statement that neither declares a name nor opens a block.
LEMMA StraightType ==
    ASSUME TypeInv, NEW form, Compile(form),
           UNCHANGED <<scopes, open, variables, block_locals, function_locals, declared>>,
           Jumps(code', Heads(open)), Len(code) <= Len(code')
    PROVE  TypeInv'
<1>1. /\ status = "compiling" /\ stmts < MaxStmts /\ stmts' = stmts + 1
      /\ UNCHANGED <<status, pc, frame, library, cell, result, lives, calls>>
  BY DEF Compile
<1>2. CompilerOK'
  <2>1. declared' \in 0 .. stmts' /\ stmts' \in 0 .. MaxStmts
    BY <1>1, NamesAssumption DEF TypeInv, CompilerOK
  <2>2. QED
    BY <2>1 DEF TypeInv, CompilerOK
<1>3. OpenOK'
  BY OpenSame DEF TypeInv, Jumps
<1>4. Stage' /\ FrameOK'
  BY <1>1, StillCompiling DEF TypeInv
<1>5. QED
  BY <1>2, <1>3, <1>4 DEF TypeInv

LEMMA ExprEmits ==
    ASSUME TypeInv, Expr
    PROVE  \E form : \E i \in Instr :
              /\ Compile(form)
              /\ code' = Append(code, i)
              /\ \/ i.op \in {"copy", "save", "load"}
                 \/ i.op = "deref"
                 \/ i.op = "addr" /\ \E x \in Names : Visible(x) /\ i.var = variables[x]
<1>1. code \in Seq(Instr)
  BY DEF TypeInv, Jumps
<1>2. \A i \in Instr : code \o <<i>> = Append(code, i)
  BY <1>1, Emitted
<1>3. \A n \in Names : Visible(n) => variables[n] \in Decls
  BY MadeOfNames DEF TypeInv
<1>4. PICK p \in Ptrs :
         /\ Visible(p)
         /\ \/ \E x \in Ints : /\ Compile("addr")
                               /\ Visible(x)
                               /\ Emit(<<AddrOf(variables[p], variables[x])>>)
            \/ \E q \in Ptrs \ {p} : /\ Compile("copy")
                                     /\ Visible(q)
                                     /\ Emit(<<Copy(variables[p], variables[q])>>)
            \/ Compile("deref") /\ Emit(<<Deref(variables[p])>>)
            \/ Compile("save") /\ Emit(<<Save(variables[p])>>)
            \/ Compile("load") /\ Emit(<<Load(variables[p])>>)
  BY Zenon DEF Expr
<1>5. PICK d \in Decls : d = variables[p]
  BY <1>3, <1>4 DEF Names
<1>6. ASSUME NEW x \in Ints, Compile("addr"), Visible(x),
             Emit(<<AddrOf(variables[p], variables[x])>>)
      PROVE  \E i \in Instr : /\ code' = Append(code, i)
                              /\ i.op = "addr"
                              /\ \E y \in Names : Visible(y) /\ i.var = variables[y]
  <2>1. PICK e \in Decls : e = variables[x] /\ x \in Names
    BY <1>3, <1>6 DEF Names
  <2>2. PICK i \in Instr : i = AddrOf(d, e) /\ i.op = "addr" /\ i.var = e
    BY <2>1, InstrMade
  <2>3. code' = Append(code, i)
    BY <1>2, <1>5, <1>6, <2>1, <2>2 DEF Emit
  <2>4. QED
    BY <1>6, <2>1, <2>2, <2>3
<1>7. ASSUME NEW q \in Ptrs, Compile("copy"), Visible(q),
             Emit(<<Copy(variables[p], variables[q])>>)
      PROVE  \E i \in Instr : code' = Append(code, i) /\ i.op = "copy"
  <2>1. PICK e \in Decls : e = variables[q]
    BY <1>3, <1>7 DEF Names
  <2>2. PICK i \in Instr : i = Copy(d, e) /\ i.op = "copy"
    BY <2>1, InstrMade
  <2>3. code' = Append(code, i)
    BY <1>2, <1>5, <1>7, <2>1, <2>2 DEF Emit
  <2>4. QED
    BY <2>2, <2>3
<1>8. ASSUME Emit(<<Deref(variables[p])>>)
      PROVE  \E i \in Instr : code' = Append(code, i) /\ i.op = "deref"
  BY <1>2, <1>5, <1>8, InstrMade DEF Emit
<1>9. ASSUME Emit(<<Save(variables[p])>>)
      PROVE  \E i \in Instr : code' = Append(code, i) /\ i.op = "save"
  BY <1>2, <1>5, <1>9, InstrMade DEF Emit
<1>10. ASSUME Emit(<<Load(variables[p])>>)
       PROVE  \E i \in Instr : code' = Append(code, i) /\ i.op = "load"
  BY <1>2, <1>5, <1>10, InstrMade DEF Emit
<1>11. \/ \E x \in Ints : /\ Compile("addr")
                          /\ Visible(x)
                          /\ Emit(<<AddrOf(variables[p], variables[x])>>)
       \/ \E q \in Ptrs \ {p} : /\ Compile("copy")
                                /\ Visible(q)
                                /\ Emit(<<Copy(variables[p], variables[q])>>)
       \/ Compile("deref") /\ Emit(<<Deref(variables[p])>>)
       \/ Compile("save") /\ Emit(<<Save(variables[p])>>)
       \/ Compile("load") /\ Emit(<<Load(variables[p])>>)
  BY <1>4
<1>12. (\E form : Compile(form)) /\
       (\E i \in Instr : /\ code' = Append(code, i)
                         /\ \/ i.op \in {"copy", "save", "load"}
                            \/ i.op = "deref"
                            \/ i.op = "addr" /\ \E x \in Names : Visible(x) /\ i.var = variables[x])
  <2>1. CASE \E x \in Ints : /\ Compile("addr")
                             /\ Visible(x)
                             /\ Emit(<<AddrOf(variables[p], variables[x])>>)
    BY <1>6, <2>1
  <2>2. CASE \E q \in Ptrs \ {p} : /\ Compile("copy")
                                   /\ Visible(q)
                                   /\ Emit(<<Copy(variables[p], variables[q])>>)
    BY <1>7, <2>2
  <2>3. CASE Compile("deref") /\ Emit(<<Deref(variables[p])>>)
    BY <1>8, <2>3
  <2>4. CASE Compile("save") /\ Emit(<<Save(variables[p])>>)
    BY <1>9, <2>4
  <2>5. CASE Compile("load") /\ Emit(<<Load(variables[p])>>)
    BY <1>10, <2>5
  <2>6. QED
    BY <1>11, <2>1, <2>2, <2>3, <2>4, <2>5
<1>13. QED
  BY <1>12

LEMMA ExprType ==
    ASSUME TypeInv, Expr
    PROVE  TypeInv'
<1>1. \E form : \E i \in Instr :
         /\ Compile(form)
         /\ code' = Append(code, i)
         /\ i.op \in {"copy", "save", "load", "deref", "addr"}
  BY ExprEmits
<1>2. PICK form, i :
         /\ i \in Instr
         /\ Compile(form)
         /\ code' = Append(code, i)
         /\ i.op \in {"copy", "save", "load", "deref", "addr"}
  BY <1>1
<1>3. i.op \notin JumpOps /\ code \in Seq(Instr)
  BY <1>2 DEF JumpOps, TypeInv, Jumps
<1>4. Jumps(code', Heads(open)) /\ Len(code) <= Len(code')
  BY <1>2, <1>3, JumpsPlain, Appended DEF TypeInv
<1>5. UNCHANGED <<scopes, open, variables, block_locals, function_locals, declared>>
  BY DEF Expr
<1>6. QED
  BY <1>2, <1>4, <1>5, StraightType

LEMMA ReturnEmits ==
    ASSUME TypeInv, Return
    PROVE  \E form : \E r \in Instr, e \in Instr, t \in Instr :
              /\ Compile(form)
              /\ r.op = "exit" /\ r.release = Allocas(function_locals) /\ r.ends = {}
              /\ t.op = "ret"
              /\ \/ code' = Append(Append(code, r), t)
                 \/ /\ code' = Append(Append(Append(code, r), e), t)
                    /\ e.op = "deref" /\ "return_deref" \in Forms
<1>1. code \in Seq(Instr)
  BY DEF TypeInv, Jumps
<1>2. \A n \in Names : Visible(n) => variables[n] \in Decls
  BY MadeOfNames DEF TypeInv
<1>3. PICK r \in Instr : /\ r = Exit(Allocas(function_locals), {})
                         /\ r.op = "exit" /\ r.release = Allocas(function_locals) /\ r.ends = {}
  <2>1. Allocas(function_locals) \in SUBSET Targets /\ {} \in SUBSET Decls
    BY MadeOfNames DEF TypeInv
  <2>2. QED
    BY <2>1, InstrMade
<1>4. \A i \in Instr, j \in Instr : /\ code \o <<i, j>> = Append(Append(code, i), j)
                                    /\ code \o <<i, r, j>> = Append(Append(Append(code, i), r), j)
  BY <1>1, Emitted
<1>5. \/ Compile("return") /\ Emit(<<r, Ret(None)>>)
      \/ \E p \in Ptrs :
            /\ Visible(p)
            /\ \/ /\ Compile("return_deref")
                  /\ Emit(<<r, Deref(variables[p]), Ret(None)>>)
               \/ Compile("return_ptr") /\ Emit(<<r, Ret(variables[p])>>)
  BY <1>3, Zenon DEF Return
<1>6. CASE Compile("return") /\ Emit(<<r, Ret(None)>>)
  <2>1. PICK t \in Instr : t = Ret(None) /\ t.op = "ret"
    BY InstrMade DEF Targets
  <2>2. code' = Append(Append(code, r), t)
    BY <1>4, <1>6, <2>1 DEF Emit
  <2>3. QED
    BY <1>3, <1>6, <2>1, <2>2
<1>7. ASSUME NEW p \in Ptrs, Visible(p), Compile("return_ptr"), Emit(<<r, Ret(variables[p])>>)
      PROVE  \E t \in Instr : t.op = "ret" /\ code' = Append(Append(code, r), t)
  <2>1. PICK d \in Targets : d = variables[p]
    BY <1>2, <1>7 DEF Names, Targets
  <2>2. PICK t \in Instr : t = Ret(d) /\ t.op = "ret"
    BY InstrMade
  <2>3. code' = Append(Append(code, r), t)
    BY <1>4, <1>7, <2>1, <2>2 DEF Emit
  <2>4. QED
    BY <2>2, <2>3
<1>8. ASSUME NEW p \in Ptrs, Visible(p), Compile("return_deref"),
             Emit(<<r, Deref(variables[p]), Ret(None)>>)
      PROVE  \E e \in Instr, t \in Instr :
                /\ t.op = "ret" /\ e.op = "deref"
                /\ code' = Append(Append(Append(code, r), e), t)
  <2>1. PICK d \in Decls : d = variables[p]
    BY <1>2, <1>8 DEF Names
  <2>2. PICK t \in Instr, e \in Instr : /\ t = Ret(None) /\ t.op = "ret"
                                        /\ e = Deref(d) /\ e.op = "deref"
    BY InstrMade DEF Targets
  <2>3. code' = Append(Append(Append(code, r), e), t)
    BY <1>1, <1>8, <2>1, <2>2, Emitted DEF Emit
  <2>4. QED
    BY <2>2, <2>3
<1>9. QED
  <2>1. CASE \E p \in Ptrs : /\ Visible(p)
                             /\ Compile("return_deref")
                             /\ Emit(<<r, Deref(variables[p]), Ret(None)>>)
    BY <1>3, <1>8, <2>1 DEF Compile
  <2>2. CASE \E p \in Ptrs : /\ Visible(p)
                             /\ Compile("return_ptr")
                             /\ Emit(<<r, Ret(variables[p])>>)
    BY <1>3, <1>7, <2>2
  <2>3. QED
    BY <1>5, <1>6, <2>1, <2>2

LEMMA ReturnType ==
    ASSUME TypeInv, Return
    PROVE  TypeInv'
<1>1. PICK form, r, e, t :
         /\ r \in Instr /\ e \in Instr /\ t \in Instr
         /\ Compile(form)
         /\ r.op = "exit" /\ t.op = "ret"
         /\ \/ code' = Append(Append(code, r), t)
            \/ code' = Append(Append(Append(code, r), e), t) /\ e.op = "deref"
  BY ReturnEmits
<1>2. code \in Seq(Instr) /\ r.op \notin JumpOps /\ t.op \notin JumpOps
  BY <1>1 DEF JumpOps, TypeInv, Jumps
<1>3. PICK n \in Nat : n = Len(code)
  BY <1>2, LenProperties
<1>4. PICK c \in Seq(Instr) : c = Append(code, r) /\ Len(c) = n + 1 /\ Jumps(c, Heads(open))
  BY <1>1, <1>2, <1>3, JumpsPlain DEF TypeInv
<1>5. ASSUME code' = Append(c, t) PROVE Jumps(code', Heads(open)) /\ Len(code) <= Len(code')
  <2>1. Jumps(Append(c, t), Heads(open)) /\ Len(Append(c, t)) = Len(c) + 1
    BY <1>1, <1>2, <1>4, JumpsPlain
  <2>2. Len(c) + 1 = n + 2
    BY <1>4
  <2>3. QED
    BY <1>3, <1>5, <2>1, <2>2
<1>6. ASSUME code' = Append(Append(c, e), t), e.op = "deref"
      PROVE  Jumps(code', Heads(open)) /\ Len(code) <= Len(code')
  <2>1. e.op \notin JumpOps
    BY <1>6 DEF JumpOps
  <2>2. PICK f \in Seq(Instr) : f = Append(c, e) /\ Len(f) = n + 2 /\ Jumps(f, Heads(open))
    <3>1. /\ Append(c, e) \in Seq(Instr) /\ Jumps(Append(c, e), Heads(open))
          /\ Len(Append(c, e)) = Len(c) + 1
      BY <1>1, <1>4, <2>1, JumpsPlain
    <3>2. Len(c) + 1 = n + 2
      BY <1>4
    <3>3. QED
      BY <3>1, <3>2
  <2>3. Jumps(Append(f, t), Heads(open)) /\ Len(Append(f, t)) = Len(f) + 1
    BY <1>1, <1>2, <2>2, JumpsPlain
  <2>4. Len(Append(f, t)) = n + 3
    BY <2>2, <2>3
  <2>5. code' = Append(f, t)
    BY <1>6, <2>2
  <2>6. QED
    BY <1>3, <2>3, <2>4, <2>5
<1>7. UNCHANGED <<scopes, open, variables, block_locals, function_locals, declared>>
  BY DEF Return
<1>8. Jumps(code', Heads(open)) /\ Len(code) <= Len(code')
  BY <1>1, <1>4, <1>5, <1>6
<1>9. QED
  BY <1>1, <1>7, <1>8, StraightType

\* A statement that opens a block.
LEMMA OpenedOK ==
    ASSUME OpenOK, NEW b \in Block, open' = Append(open, b),
           Len(scopes') = Len(scopes) + Width(b.kind),
           Len(block_locals') = Len(block_locals) + 1,
           code \in Seq(Instr), code' \in Seq(Instr), Len(code) <= Len(code'),
           b.head <= Len(code') + 1
    PROVE  OpenOK'
<1>1. PICK lev : LevelsOf(lev, open, Len(scopes))
  BY DEF OpenOK, Levels
<1>2. \E up : LevelsOf(up, open', Len(scopes'))
  BY <1>1, LevelsPush DEF OpenOK
<1>3. PICK o \in Seq(Block), m \in Nat : o = open /\ m = Len(o) /\ DOMAIN o = 1 .. m
  BY LenProperties DEF OpenOK
<1>4. /\ open' \in Seq(Block) /\ Len(open') = m + 1 /\ DOMAIN open' = 1 .. m + 1
      /\ \A k \in 1 .. m : open'[k] = o[k]
      /\ open'[m + 1] = b
  BY <1>3, PushIs
<1>5. PICK n \in Nat, l \in Nat : n = Len(code) /\ l = Len(code') /\ n <= l
  BY LenProperties
<1>6. ASSUME NEW k \in 1 .. m PROVE o[k].head \in Nat /\ o[k].head <= n + 1
  <2>1. o[k] \in Block
    BY <1>3, ElementOfSeq
  <2>2. o[k].head <= n + 1
    BY <1>3, <1>5 DEF OpenOK
  <2>3. QED
    BY <2>1, <2>2 DEF Block
<1>7. ASSUME NEW k \in 1 .. m + 1 PROVE open'[k].head <= l + 1
  <2>1. CASE k = m + 1
    BY <1>4, <1>5, <2>1
  <2>2. CASE k \in 1 .. m
    BY <1>4, <1>5, <1>6, <2>2
  <2>3. k = m + 1 \/ k \in 1 .. m
    OBVIOUS
  <2>4. QED
    BY <2>1, <2>2, <2>3
<1>8. Len(block_locals') = Len(open') + 1
  BY <1>3, <1>4 DEF OpenOK
<1>9. QED
  BY <1>2, <1>4, <1>5, <1>7, <1>8 DEF OpenOK, Levels

LEMMA BlockMade ==
    ASSUME NEW k \in Kinds, NEW h \in Nat, h > 0
    PROVE  \E b \in Block : b = [kind |-> k, head |-> h] /\ b.kind = k /\ b.head = h
<1>1. h \in Nat \ {0}
  OBVIOUS
<1>2. [kind |-> k, head |-> h] \in Block
  BY <1>1, Zenon DEF Block
<1>3. QED
  BY <1>2, Zenon

LEMMA OpenFacts ==
    ASSUME TypeInv, NEW kind \in {"block", "if", "while"}, NEW instrs,
           kind = "block" => instrs = <<>>, kind # "block" => instrs = <<Branch>>,
           OpenBlock(kind, instrs)
    PROVE  \E b \in Block, n \in Nat :
              /\ n = Len(code) /\ b.kind = kind /\ b.head = n + 1
              /\ status = "compiling" /\ stmts < MaxStmts /\ stmts' = stmts + 1
              /\ UNCHANGED <<status, pc, frame, library, cell, result, lives, calls>>
              /\ open' = Append(open, b)
              /\ scopes' = Append(scopes, Empty)
              /\ block_locals' = Append(block_locals, {})
              /\ UNCHANGED <<variables, function_locals, declared>>
              /\ kind = "block" => code' = code /\ Heads(open') = Heads(open)
              /\ kind # "block" => /\ code' = Append(code, Branch)
                                   /\ Heads(open') = Heads(open) \cup {n + 1}
<1>1. PICK n \in Nat : n = Len(code)
  BY LenProperties DEF TypeInv, Jumps
<1>2. PICK b \in Block : b = [kind |-> kind, head |-> n + 1] /\ b.kind = kind /\ b.head = n + 1
  <2>1. kind \in Kinds /\ n + 1 \in Nat /\ n + 1 > 0
    BY DEF Kinds
  <2>2. QED
    BY <2>1, BlockMade
<1>3. /\ status = "compiling" /\ stmts < MaxStmts /\ stmts' = stmts + 1
      /\ UNCHANGED <<status, pc, frame, library, cell, result, lives, calls>>
      /\ open' = Append(open, b)
      /\ scopes' = Append(scopes, Empty)
      /\ block_locals' = Append(block_locals, {})
      /\ code' = code \o instrs
      /\ UNCHANGED <<variables, function_locals, declared>>
  BY <1>1, <1>2 DEF OpenBlock, Compile, Emit, Here
<1>4. open \in Seq(Block) /\ code \in Seq(Instr) /\ Branch \in Instr
  BY InstrMade DEF TypeInv, OpenOK, Jumps
<1>5. CASE kind = "block"
  <2>1. Heads(open') = Heads(open) \cup {}
    BY <1>2, <1>3, <1>4, <1>5, HeadsPush
  <2>2. code' = code
    BY <1>3, <1>4, <1>5, Emitted
  <2>3. Heads(open') = Heads(open)
    BY <2>1
  <2>4. QED
    BY <1>1, <1>2, <1>3, <1>5, <2>2, <2>3
<1>6. CASE kind # "block"
  <2>1. Heads(open') = Heads(open) \cup {n + 1}
    BY <1>2, <1>3, <1>4, <1>6, HeadsPush
  <2>2. code' = code \o <<Branch>>
    BY <1>3, <1>6
  <2>3. code' = Append(code, Branch)
    BY <1>4, <2>2, Emitted
  <2>4. QED
    BY <1>1, <1>2, <1>3, <1>6, <2>1, <2>3
<1>7. QED
  BY <1>5, <1>6

LEMMA OpenType ==
    ASSUME TypeInv, NEW kind \in {"block", "if", "while"}, NEW instrs,
           kind = "block" => instrs = <<>>, kind # "block" => instrs = <<Branch>>,
           OpenBlock(kind, instrs)
    PROVE  TypeInv'
<1>1. PICK b \in Block, n \in Nat :
         /\ n = Len(code) /\ b.kind = kind /\ b.head = n + 1
         /\ status = "compiling" /\ stmts < MaxStmts /\ stmts' = stmts + 1
         /\ UNCHANGED <<status, pc, frame, library, cell, result, lives, calls>>
         /\ open' = Append(open, b)
         /\ scopes' = Append(scopes, Empty)
         /\ block_locals' = Append(block_locals, {})
         /\ UNCHANGED <<variables, function_locals, declared>>
         /\ kind = "block" => code' = code /\ Heads(open') = Heads(open)
         /\ kind # "block" => /\ code' = Append(code, Branch)
                              /\ Heads(open') = Heads(open) \cup {n + 1}
  BY OpenFacts
<1>2. b.kind = kind /\ b.head = n + 1 /\ n = Len(code)
  BY <1>1
<1>3. /\ status = "compiling" /\ stmts < MaxStmts /\ stmts' = stmts + 1
      /\ UNCHANGED <<status, pc, frame, library, cell, result, lives, calls>>
      /\ open' = Append(open, b)
      /\ scopes' = Append(scopes, Empty)
      /\ block_locals' = Append(block_locals, {})
      /\ UNCHANGED <<variables, function_locals, declared>>
  BY <1>1
<1>4. Empty \in Scope /\ \A m \in Names : Empty[m] = None
  BY DEF Empty, Scope, Targets
<1>5. /\ scopes' \in Seq(Scope) /\ Len(scopes') = Len(scopes) + 1
      /\ DOMAIN scopes' = 1 .. Len(scopes) + 1 /\ DOMAIN scopes = 1 .. Len(scopes)
      /\ Len(scopes) \in Nat
      /\ \A i \in 1 .. Len(scopes) : scopes'[i] = scopes[i]
      /\ scopes'[Len(scopes) + 1] = Empty
  BY <1>3, <1>4, PushIs DEF TypeInv, CompilerOK
<1>6. block_locals' \in Seq(SUBSET Names) /\ Len(block_locals') = Len(block_locals) + 1
  BY <1>3, PushIs DEF TypeInv, CompilerOK
<1>7. CompilerOK'
  <2>1. declared' \in 0 .. stmts' /\ stmts' \in 0 .. MaxStmts
    BY <1>3, NamesAssumption DEF TypeInv, CompilerOK
  <2>2. ASSUME NEW i \in DOMAIN scopes', NEW m \in Names, scopes'[i][m] # None
        PROVE  variables'[m] # None
    <3>1. i = Len(scopes) + 1 \/ i \in 1 .. Len(scopes)
      BY <1>5
    <3>2. QED
      BY <1>3, <1>4, <1>5, <2>2, <3>1 DEF TypeInv, CompilerOK
  <2>3. QED
    BY <1>3, <1>5, <1>6, <2>1, <2>2 DEF TypeInv, CompilerOK
<1>8. open \in Seq(Block) /\ code \in Seq(Instr) /\ Jumps(code, Heads(open))
  BY DEF TypeInv, OpenOK, Jumps
<1>9. Branch \in Instr /\ Branch.op \in JumpOps
  BY InstrMade DEF JumpOps
<1>10. Jumps(code', Heads(open')) /\ n <= Len(code') /\ code' \in Seq(Instr)
  <2>1. CASE kind = "block"
    BY <1>1, <1>8, <2>1
  <2>2. CASE kind # "block"
    <3>1. Jumps(Append(code, Branch), Heads(open) \cup {n + 1})
      BY <1>2, <1>8, <1>9, JumpsAppend
    <3>2. Len(Append(code, Branch)) = Len(code) + 1 /\ Append(code, Branch) \in Seq(Instr)
      BY <1>8, <1>9, Appended
    <3>3. code' = Append(code, Branch) /\ Heads(open') = Heads(open) \cup {n + 1}
      BY <1>1, <2>2
    <3>4. Len(code) \in Nat /\ n = Len(code)
      BY <1>1
    <3>5. Jumps(code', Heads(open')) /\ code' \in Seq(Instr)
      BY <3>1, <3>2, <3>3
    <3>6. n <= Len(code')
      <4>1. Len(code') = Len(code) + 1
        BY <3>2, <3>3
      <4>2. QED
        BY <3>4, <4>1
    <3>7. QED
      BY <3>5, <3>6
  <2>3. QED
    BY <2>1, <2>2
<1>11. Width(b.kind) = 1
  BY <1>2 DEF Width
<1>12. OpenOK'
  <2>1. b.head <= Len(code') + 1
    <3>1. Len(code') \in Nat
      BY <1>10, LenProperties
    <3>2. QED
      BY <1>2, <1>10, <3>1
  <2>2. QED
    BY <1>1, <1>3, <1>5, <1>6, <1>8, <1>10, <1>11, <2>1, OpenedOK DEF TypeInv
<1>13. QED
  BY <1>3, <1>7, <1>10, <1>12, StillCompiling DEF TypeInv

ForBind(sc, n, d) == sc \o <<[Empty EXCEPT ![n] = d], Empty>>

LEMMA ForScopes ==
    ASSUME NEW sc \in Seq(Scope), NEW n \in Names, NEW d \in Decls
    PROVE  /\ ForBind(sc, n, d) \in Seq(Scope)
           /\ Len(ForBind(sc, n, d)) = Len(sc) + 2
           /\ Len(sc) \in Nat
           /\ DOMAIN ForBind(sc, n, d) = 1 .. Len(sc) + 2
           /\ DOMAIN sc = 1 .. Len(sc)
           /\ \A i \in 1 .. Len(sc) : ForBind(sc, n, d)[i] = sc[i]
           /\ \A m \in Names : /\ ForBind(sc, n, d)[Len(sc) + 1][m] = IF m = n THEN d ELSE None
                               /\ ForBind(sc, n, d)[Len(sc) + 2][m] = None
<1>1. /\ Empty \in Scope /\ [Empty EXCEPT ![n] = d] \in Scope
      /\ \A m \in Names : /\ Empty[m] = None
                          /\ [Empty EXCEPT ![n] = d][m] = IF m = n THEN d ELSE None
  BY DEF Empty, Scope, Targets
<1>2. PICK e \in Scope, f \in Scope : e = [Empty EXCEPT ![n] = d] /\ f = Empty
  BY <1>1
<1>3. PICK a \in Seq(Scope) : /\ a = Append(sc, e)
                              /\ Len(a) = Len(sc) + 1
                              /\ \A i \in 1 .. Len(sc) : a[i] = sc[i]
                              /\ a[Len(sc) + 1] = e
                              /\ Len(sc) \in Nat /\ DOMAIN sc = 1 .. Len(sc)
  BY PushIs
<1>4. PICK c \in Seq(Scope) : /\ c = Append(a, f)
                              /\ Len(c) = Len(a) + 1
                              /\ \A i \in 1 .. Len(a) : c[i] = a[i]
                              /\ c[Len(a) + 1] = f
                              /\ DOMAIN c = 1 .. Len(a) + 1
  BY PushIs
<1>5. sc \o <<e, f>> = c
  BY <1>3, <1>4, Emitted
<1>6. ForBind(sc, n, d) = c
  BY <1>2, <1>5 DEF ForBind
<1>7. PICK l \in Nat : l = Len(sc)
  BY <1>3
<1>8. Len(c) = l + 2 /\ DOMAIN c = 1 .. l + 2 /\ c[l + 1] = e /\ c[l + 2] = f
  BY <1>3, <1>4, <1>7
<1>9. \A i \in 1 .. l : c[i] = sc[i]
  BY <1>3, <1>4, <1>7
<1>10. QED
  BY <1>1, <1>2, <1>3, <1>6, <1>7, <1>8, <1>9

LEMMA ForFacts ==
    ASSUME TypeInv, NEW n \in Ints, For(n)
    PROVE  \E d \in Decls, b \in Block, m \in Nat :
              /\ d = declared + 1 /\ m = Len(code)
              /\ b.kind = "for" /\ b.head = m + 2
              /\ status = "compiling" /\ stmts < MaxStmts /\ stmts' = stmts + 1
              /\ UNCHANGED <<status, pc, frame, library, cell, result, lives, calls>>
              /\ open' = Append(open, b)
              /\ scopes' = ForBind(scopes, n, d)
              /\ declared' = d
              /\ variables' = [variables EXCEPT ![n] = d]
              /\ function_locals' = function_locals \cup {n}
              /\ block_locals' = Append(WithLocal(n), {})
              /\ code' = Append(Append(code, DeclareCounter(d)), Branch)
              /\ Shadowing \/ ~Visible(n)
<1>1. code \in Seq(Instr) /\ declared \in 0 .. stmts /\ stmts \in 0 .. MaxStmts
  BY DEF TypeInv, CompilerOK, Jumps
<1>2. PICK m \in Nat : m = Len(code)
  BY <1>1, LenProperties
<1>3. stmts < MaxStmts
  BY DEF For, Compile
<1>4. PICK d \in Decls : d = declared + 1
  BY <1>1, <1>3, NamesAssumption DEF Decls
<1>5. PICK b \in Block : b = [kind |-> "for", head |-> m + 2] /\ b.kind = "for" /\ b.head = m + 2
  <2>1. "for" \in Kinds /\ m + 2 \in Nat /\ m + 2 > 0
    BY DEF Kinds
  <2>2. QED
    BY <2>1, BlockMade
<1>6. m + 2 = Here + 1
  BY <1>2 DEF Here
<1>7. code' = Append(Append(code, DeclareCounter(d)), Branch)
  <2>1. PICK i \in Instr, j \in Instr : i = DeclareCounter(d) /\ j = Branch
    BY InstrMade
  <2>2. code' = code \o <<i, j>>
    BY <1>4, <2>1 DEF For, Emit
  <2>3. QED
    BY <1>1, <2>1, <2>2, Emitted
<1>8. /\ status = "compiling" /\ stmts < MaxStmts /\ stmts' = stmts + 1
      /\ UNCHANGED <<status, pc, frame, library, cell, result, lives, calls>>
      /\ open' = Append(open, b)
      /\ scopes' = ForBind(scopes, n, d)
      /\ declared' = d
      /\ variables' = [variables EXCEPT ![n] = d]
      /\ function_locals' = function_locals \cup {n}
      /\ block_locals' = Append(WithLocal(n), {})
      /\ Shadowing \/ ~Visible(n)
  BY <1>4, <1>5, <1>6 DEF For, Compile, AddLocal, ForBind
<1>9. QED
  BY <1>2, <1>4, <1>5, <1>7, <1>8

LEMMA ForType ==
    ASSUME TypeInv, NEW n \in Ints, For(n)
    PROVE  TypeInv'
<1>1. PICK d \in Decls, b \in Block, m \in Nat :
         /\ d = declared + 1 /\ m = Len(code)
         /\ b.kind = "for" /\ b.head = m + 2
         /\ status = "compiling" /\ stmts < MaxStmts /\ stmts' = stmts + 1
         /\ UNCHANGED <<status, pc, frame, library, cell, result, lives, calls>>
         /\ open' = Append(open, b)
         /\ scopes' = ForBind(scopes, n, d)
         /\ declared' = d
         /\ variables' = [variables EXCEPT ![n] = d]
         /\ function_locals' = function_locals \cup {n}
         /\ block_locals' = Append(WithLocal(n), {})
         /\ code' = Append(Append(code, DeclareCounter(d)), Branch)
  BY ForFacts
<1>2. n \in Names /\ d # None /\ d \in Targets
  BY DEF Names, Decls, Targets, None
<1>3. PICK sc \in Seq(Scope), s \in Nat : sc = scopes /\ s = Len(sc) /\ DOMAIN sc = 1 .. s
  BY LenProperties DEF TypeInv, CompilerOK
<1>4. /\ scopes' \in Seq(Scope) /\ Len(scopes') = s + 2
      /\ DOMAIN scopes' = 1 .. s + 2
      /\ \A i \in 1 .. s : scopes'[i] = sc[i]
      /\ \A k \in Names : /\ scopes'[s + 1][k] = IF k = n THEN d ELSE None
                          /\ scopes'[s + 2][k] = None
  <2>1. scopes' = ForBind(sc, n, d)
    BY <1>1, <1>3
  <2>2. /\ ForBind(sc, n, d) \in Seq(Scope)
        /\ Len(ForBind(sc, n, d)) = Len(sc) + 2
        /\ DOMAIN ForBind(sc, n, d) = 1 .. Len(sc) + 2
        /\ \A i \in 1 .. Len(sc) : ForBind(sc, n, d)[i] = sc[i]
        /\ \A k \in Names : /\ ForBind(sc, n, d)[Len(sc) + 1][k] = IF k = n THEN d ELSE None
                            /\ ForBind(sc, n, d)[Len(sc) + 2][k] = None
    BY <1>2, <1>3, ForScopes
  <2>3. QED
    BY <1>3, <2>1, <2>2
<1>5. block_locals' \in Seq(SUBSET Names) /\ Len(block_locals') = Len(block_locals) + 1
  <2>1. WithLocal(n) \in Seq(SUBSET Names) /\ Len(WithLocal(n)) = Len(block_locals)
    BY <1>2, WithLocalIs DEF TypeInv
  <2>2. {} \in SUBSET Names
    OBVIOUS
  <2>3. QED
    BY <1>1, <2>1, <2>2, PushIs
<1>6. /\ variables' \in [Names -> Targets]
      /\ \A k \in Names : variables'[k] = IF k = n THEN d ELSE variables[k]
  BY <1>1, <1>2 DEF TypeInv, CompilerOK
<1>7. CompilerOK'
  <2>1. declared' \in 0 .. stmts' /\ stmts' \in 0 .. MaxStmts
    BY <1>1, NamesAssumption DEF TypeInv, CompilerOK
  <2>2. ASSUME NEW i \in 1 .. s + 2, NEW k \in Names, scopes'[i][k] # None
        PROVE  variables'[k] # None
    <3>1. i = s + 1 \/ i = s + 2 \/ i \in 1 .. s
      OBVIOUS
    <3>2. CASE i \in 1 .. s
      <4>1. sc[i][k] # None
        BY <1>4, <2>2, <3>2
      <4>2. variables[k] # None
        BY <1>3, <3>2, <4>1 DEF TypeInv, CompilerOK
      <4>3. QED
        BY <1>2, <1>6, <4>2
    <3>3. CASE i = s + 1 \/ i = s + 2
      BY <1>2, <1>4, <1>6, <2>2, <3>3
    <3>4. QED
      BY <3>1, <3>2, <3>3
  <2>3. QED
    BY <1>1, <1>2, <1>4, <1>5, <1>6, <2>1, <2>2 DEF TypeInv, CompilerOK
<1>8. open \in Seq(Block) /\ code \in Seq(Instr) /\ Jumps(code, Heads(open))
  BY DEF TypeInv, OpenOK, Jumps
<1>9. /\ DeclareCounter(d) \in Instr /\ DeclareCounter(d).op \notin JumpOps
      /\ Branch \in Instr /\ Branch.op \in JumpOps
  BY InstrMade DEF JumpOps
<1>10. PICK c \in Seq(Instr) : /\ c = Append(code, DeclareCounter(d))
                               /\ Len(c) = m + 1 /\ Jumps(c, Heads(open))
  BY <1>1, <1>8, <1>9, JumpsPlain
<1>11. Heads(open') = Heads(open) \cup {m + 2}
  BY <1>1, <1>8, HeadsPush
<1>12. Jumps(code', Heads(open'))
  <2>1. Jumps(Append(c, Branch), Heads(open) \cup {Len(c) + 1})
    BY <1>9, <1>10, JumpsAppend
  <2>2. Len(c) + 1 = m + 2
    BY <1>10
  <2>3. QED
    BY <1>1, <1>10, <1>11, <2>1, <2>2
<1>13. code' \in Seq(Instr) /\ Len(code') = m + 2
  BY <1>1, <1>9, <1>10, Appended
<1>14. OpenOK'
  <2>1. Len(scopes') = Len(scopes) + Width(b.kind)
    BY <1>1, <1>3, <1>4 DEF Width
  <2>2. Len(code) <= Len(code') /\ b.head <= Len(code') + 1
    BY <1>1, <1>13
  <2>3. QED
    BY <1>1, <1>5, <1>8, <1>13, <2>1, <2>2, OpenedOK DEF TypeInv
<1>15. Stage' /\ FrameOK'
  BY <1>1, StillCompiling DEF TypeInv
<1>16. QED
  BY <1>7, <1>12, <1>14, <1>15 DEF TypeInv

\* The code at the end of a block, before what its statement adds.
Closed == Append(code, BlockExit)
Looped == Append(Closed, Jump(Last(open).head))

LEMMA CloseFacts ==
    ASSUME TypeInv, Close
    PROVE  /\ status = "compiling" /\ Len(open) > 0
           /\ open' = Front(open)
           /\ scopes' = SubSeq(scopes, 1, Len(scopes) - Width(Last(open).kind))
           /\ block_locals' = Front(block_locals)
           /\ UNCHANGED <<variables, function_locals, declared, stmts>>
           /\ UNCHANGED <<status, pc, frame, library, cell, result, lives, calls>>
           /\ \/ Last(open).kind = "block" /\ code' = Closed
              \/ Last(open).kind \in {"if", "else"} /\ code' = Patch(Closed, Last(open).head)
              \/ Last(open).kind = "while" /\ code' = Patch(Looped, Last(open).head)
              \/ /\ Last(open).kind = "for"
                 /\ code' = Append(Patch(Looped, Last(open).head),
                                   Exit({}, Ends(scopes[Len(scopes) - 1])))
<1>1. open \in Seq(Block) /\ open # <<>> /\ status = "compiling" /\ open' = Front(open)
  BY DEF Close, TypeInv, OpenOK
<1>2. Len(open) > 0
  BY <1>1, EmptySeq
<1>3. PICK top \in Block : top = Last(open)
  BY <1>1, <1>2, FrontIs
<1>4. top.kind \in Kinds /\ top.head \in Nat
  BY DEF Block
<1>5. code \in Seq(Instr) /\ BlockExit \in Instr /\ Jump(top.head) \in Instr
  BY <1>4, BlockExitTyped, InstrMade DEF TypeInv, Jumps
<1>6. code \o <<BlockExit>> = Closed /\ code \o <<BlockExit, Jump(top.head)>> = Looped
  BY <1>3, <1>5, Emitted DEF Closed, Looped
<1>7. CASE top.kind = "block"
  <2>1. CloseScopes(1) /\ Emit(<<BlockExit>>) /\ Width(top.kind) = 1
    BY <1>3, <1>7 DEF Close, Width
  <2>2. QED
    BY <1>1, <1>2, <1>3, <1>6, <1>7, <2>1 DEF CloseScopes, Emit
<1>8. CASE top.kind \in {"if", "else"}
  <2>1. CloseScopes(1) /\ code' = Patch(Closed, top.head) /\ Width(top.kind) = 1
    BY <1>3, <1>8 DEF Close, Width, Closed
  <2>2. QED
    BY <1>1, <1>2, <1>3, <1>8, <2>1 DEF CloseScopes
<1>9. CASE top.kind = "while"
  <2>1. CloseScopes(1) /\ code' = Patch(Looped, top.head) /\ Width(top.kind) = 1
    BY <1>3, <1>6, <1>9 DEF Close, Width
  <2>2. QED
    BY <1>1, <1>2, <1>3, <1>9, <2>1 DEF CloseScopes
<1>10. CASE top.kind = "for"
  <2>1. /\ CloseScopes(2) /\ Width(top.kind) = 2
        /\ code' = Append(Patch(Looped, top.head), Exit({}, Ends(scopes[Len(scopes) - 1])))
    BY <1>3, <1>6, <1>10 DEF Close, Width
  <2>2. QED
    BY <1>1, <1>2, <1>3, <1>10, <2>1 DEF CloseScopes
<1>11. QED
  BY <1>4, <1>7, <1>8, <1>9, <1>10 DEF Kinds

\* What a closed block and the jump back to its head give, and the patch of the head.
LEMMA PatchedJumps ==
    ASSUME NEW c, NEW heads, Jumps(c, heads), NEW left,
           NEW h \in heads, left \subseteq heads, heads \ {h} \subseteq left
    PROVE  /\ Jumps(Patch(c, h), left)
           /\ Patch(c, h) \in Seq(Instr)
           /\ Len(Patch(c, h)) = Len(c)
           /\ Len(c) \in Nat
<1>1. c \in Seq(Instr) /\ h \in DOMAIN c /\ c[h].op \in JumpOps
  BY DEF Jumps
<1>2. QED
  BY <1>1, Patched, JumpsPatch

LEMMA LoopedJumps ==
    ASSUME TypeInv
    PROVE  /\ Jumps(Closed, Heads(open))
           /\ Closed \in Seq(Instr) /\ Len(code) \in Nat /\ Len(Closed) = Len(code) + 1
           /\ Len(open) > 0 =>
                 /\ Jumps(Looped, Heads(open))
                 /\ Looped \in Seq(Instr) /\ Len(Looped) = Len(code) + 2
<1>1. Jumps(code, Heads(open)) /\ code \in Seq(Instr) /\ open \in Seq(Block)
  BY DEF TypeInv, Jumps, OpenOK
<1>2. BlockExit \in Instr /\ BlockExit.op \notin JumpOps
  BY BlockExitTyped DEF TypeInv, JumpOps
<1>3. PICK n \in Nat : n = Len(code)
  BY <1>1, LenProperties
<1>4. PICK c \in Seq(Instr) : c = Closed /\ Len(c) = n + 1 /\ Jumps(c, Heads(open))
  BY <1>1, <1>2, <1>3, JumpsPlain DEF Closed
<1>5. ASSUME Len(open) > 0
      PROVE  Jumps(Looped, Heads(open)) /\ Looped \in Seq(Instr) /\ Len(Looped) = n + 2
  <2>1. PICK h \in Nat \ {0} : h = Last(open).head /\ h <= n + 1
    <3>1. PICK top \in Block : /\ top = Last(open) /\ top = open[Len(open)]
                               /\ Len(open) \in DOMAIN open
      BY <1>1, <1>5, FrontIs
    <3>2. top.head \in Nat \ {0}
      BY DEF Block
    <3>3. open[Len(open)].head <= Len(code) + 1
      BY <3>1 DEF TypeInv, OpenOK
    <3>4. QED
      BY <1>3, <3>1, <3>2, <3>3
  <2>2. PICK i \in Instr : i = Jump(h) /\ i.op = "jump" /\ i.to = h
    BY InstrMade
  <2>3. h \in 1 .. Len(c) + 1
    BY <1>4, <2>1
  <2>4. Jumps(Append(c, i), Heads(open) \cup {})
    BY <1>4, <2>2, <2>3, JumpsAppend
  <2>5. Len(Append(c, i)) = Len(c) + 1 /\ Append(c, i) \in Seq(Instr)
    BY Appended
  <2>6. Len(Append(c, i)) = n + 2
    BY <1>4, <2>5
  <2>7. Looped = Append(c, i)
    BY <1>4, <2>1, <2>2 DEF Looped
  <2>8. QED
    BY <2>4, <2>5, <2>6, <2>7
<1>6. QED
  BY <1>3, <1>4, <1>5

LEMMA LoopExitTyped ==
    ASSUME TypeInv, Len(open) > 0, Last(open).kind = "for"
    PROVE  \E i \in Instr : /\ i = Exit({}, Ends(scopes[Len(scopes) - 1]))
                            /\ i.op = "exit"
                            /\ i.release = {} /\ i.ends = Ends(scopes[Len(scopes) - 1])
                            /\ Len(scopes) - 1 \in DOMAIN scopes
<1>1. PICK lev : LevelsOf(lev, open, Len(scopes))
  BY DEF TypeInv, OpenOK, Levels
<1>2. Len(scopes) - 2 \in Nat \ {0} /\ Len(scopes) \in Nat
  <2>1. Width(Last(open).kind) = 2
    BY DEF Width
  <2>2. QED
    BY <1>1, <2>1, LevelsTop DEF TypeInv, OpenOK
<1>3. Len(scopes) - 1 \in DOMAIN scopes
  <2>1. DOMAIN scopes = 1 .. Len(scopes)
    BY LenProperties DEF TypeInv, CompilerOK
  <2>2. QED
    BY <1>2, <2>1
<1>4. PICK e \in SUBSET Decls : e = Ends(scopes[Len(scopes) - 1])
  BY <1>3, MadeOfNames DEF TypeInv
<1>5. {} \in SUBSET Targets
  OBVIOUS
<1>6. PICK i \in Instr : i = Exit({}, e) /\ i.op = "exit" /\ i.release = {} /\ i.ends = e
  BY <1>5, InstrMade
<1>7. QED
  BY <1>3, <1>4, <1>6

LEMMA CloseJumps ==
    ASSUME TypeInv, Close
    PROVE  Jumps(code', Heads(open')) /\ code' \in Seq(Instr) /\ Len(code) < Len(code')
<1>1. open \in Seq(Block) /\ Len(open) > 0 /\ open' = Front(open)
  BY CloseFacts DEF TypeInv, OpenOK
<1>2. PICK n \in Nat : n = Len(code)
  BY LoopedJumps
<1>3. PICK c \in Seq(Instr), l \in Seq(Instr) :
         /\ c = Closed /\ Len(c) = n + 1 /\ Jumps(c, Heads(open))
         /\ l = Looped /\ Len(l) = n + 2 /\ Jumps(l, Heads(open))
  BY <1>1, <1>2, LoopedJumps
<1>4. PICK top \in Block : top = Last(open)
  BY <1>1, FrontIs
<1>5. CASE top.kind = "block"
  <2>1. code' = c /\ Heads(open') = Heads(open)
    BY <1>1, <1>3, <1>4, <1>5, CloseFacts, HeadsPop
  <2>2. QED
    BY <1>2, <1>3, <2>1
<1>6. ASSUME top.kind # "block"
      PROVE  /\ top.head \in Heads(open)
             /\ Heads(open') \subseteq Heads(open)
             /\ Heads(open) \ {top.head} \subseteq Heads(open')
  BY <1>1, <1>4, <1>6, HeadsPop
<1>7. CASE top.kind \in {"if", "else"}
  <2>1. code' = Patch(c, top.head) /\ top.kind # "block"
    BY <1>3, <1>4, <1>7, CloseFacts
  <2>2. Jumps(Patch(c, top.head), Heads(open')) /\ Patch(c, top.head) \in Seq(Instr)
        /\ Len(Patch(c, top.head)) = Len(c)
    BY <1>3, <1>6, <2>1, PatchedJumps
  <2>3. QED
    BY <1>2, <1>3, <2>1, <2>2
<1>8. CASE top.kind \in {"while", "for"}
  <2>1. PICK d \in Seq(Instr) : d = Patch(l, top.head) /\ Len(d) = n + 2 /\ Jumps(d, Heads(open'))
    BY <1>3, <1>6, <1>8, PatchedJumps
  <2>2. CASE top.kind = "while"
    <3>1. code' = d
      BY <1>3, <1>4, <2>1, <2>2, CloseFacts
    <3>2. QED
      BY <1>2, <2>1, <3>1
  <2>3. CASE top.kind = "for"
    <3>1. PICK i \in Instr : i = Exit({}, Ends(scopes[Len(scopes) - 1])) /\ i.op \notin JumpOps
      BY <1>1, <1>4, <2>3, LoopExitTyped DEF JumpOps
    <3>2. code' = Append(d, i)
      BY <1>3, <1>4, <2>1, <2>3, <3>1, CloseFacts
    <3>3. Jumps(Append(d, i), Heads(open')) /\ Append(d, i) \in Seq(Instr)
          /\ Len(Append(d, i)) = Len(d) + 1
      BY <2>1, <3>1, JumpsPlain
    <3>4. Len(d) + 1 = n + 3
      BY <2>1
    <3>5. QED
      BY <1>2, <3>2, <3>3, <3>4
  <2>4. QED
    BY <1>8, <2>2, <2>3
<1>9. QED
  BY <1>5, <1>7, <1>8 DEF Block, Kinds

LEMMA CutCompiler ==
    ASSUME CompilerOK, NEW n \in Nat, n <= Len(scopes), Len(block_locals) > 0,
           scopes' = SubSeq(scopes, 1, n), block_locals' = Front(block_locals),
           UNCHANGED <<variables, function_locals, declared, stmts>>
    PROVE  CompilerOK' /\ Len(scopes') = n /\ Len(block_locals') = Len(block_locals) - 1
<1>1. PICK sc \in Seq(Scope) : sc = scopes /\ n <= Len(sc)
  BY DEF CompilerOK
<1>2. /\ SubSeq(sc, 1, n) \in Seq(Scope)
      /\ Len(SubSeq(sc, 1, n)) = n
      /\ DOMAIN SubSeq(sc, 1, n) = 1 .. n
      /\ \A i \in 1 .. n : SubSeq(sc, 1, n)[i] = sc[i]
  BY <1>1, CutIs
<1>3. DOMAIN scopes = 1 .. Len(scopes) /\ Len(scopes) \in Nat
  BY LenProperties DEF CompilerOK
<1>4. \A i \in 1 .. n : i \in DOMAIN scopes
  BY <1>3
<1>5. block_locals' \in Seq(SUBSET Names) /\ Len(block_locals') = Len(block_locals) - 1
  BY FrontIs DEF CompilerOK
<1>6. \A i \in DOMAIN scopes', m \in Names : scopes'[i][m] # None => variables'[m] # None
  BY <1>1, <1>2, <1>4 DEF CompilerOK
<1>7. QED
  BY <1>1, <1>2, <1>5, <1>6 DEF CompilerOK

LEMMA HeadsWithin ==
    ASSUME OpenOK, Len(open) > 0, code \in Seq(Instr), code' \in Seq(Instr), Len(code) <= Len(code')
    PROVE  \A k \in DOMAIN Front(open) : Front(open)[k].head <= Len(code') + 1
<1>1. PICK o \in Seq(Block) : o = open /\ Len(o) > 0
  BY DEF OpenOK
<1>2. PICK n \in Nat, l \in Nat : n = Len(code) /\ l = Len(code') /\ n <= l
  BY LenProperties
<1>3. /\ DOMAIN Front(o) = 1 .. Len(o) - 1
      /\ \A i \in 1 .. Len(o) - 1 : Front(o)[i] = o[i]
      /\ DOMAIN o = 1 .. Len(o) /\ Len(o) \in Nat
  BY <1>1, FrontIs
<1>4. ASSUME NEW k \in 1 .. Len(o) - 1 PROVE o[k].head <= l + 1
  <2>1. k \in 1 .. Len(o)
    BY <1>3
  <2>2. o[k] \in Block
    BY <2>1, ElementOfSeq
  <2>3. o[k].head <= n + 1
    BY <1>1, <1>2, <1>3, <2>1 DEF OpenOK
  <2>4. o[k].head \in Nat
    BY <2>2 DEF Block
  <2>5. QED
    BY <1>2, <2>3, <2>4
<1>5. QED
  BY <1>1, <1>2, <1>3, <1>4

LEMMA CloseType ==
    ASSUME TypeInv, Close
    PROVE  TypeInv'
<1>1. PICK w : w = Width(Last(open).kind)
  OBVIOUS
<1>2. /\ status = "compiling" /\ Len(open) > 0
      /\ open' = Front(open)
      /\ scopes' = SubSeq(scopes, 1, Len(scopes) - w)
      /\ block_locals' = Front(block_locals)
      /\ UNCHANGED <<variables, function_locals, declared, stmts>>
      /\ UNCHANGED <<status, pc, frame, library, cell, result, lives, calls>>
  BY <1>1, CloseFacts
<1>3. PICK lev : LevelsOf(lev, open, Len(scopes))
  BY DEF TypeInv, OpenOK, Levels
<1>4. PICK n \in Nat : n = Len(scopes) - w /\ n <= Len(scopes)
  <2>1. Len(scopes) - w \in Nat /\ Len(scopes) \in Nat
    BY <1>1, <1>2, <1>3, LevelsTop DEF TypeInv, OpenOK
  <2>2. w \in {1, 2}
    BY <1>1 DEF Width
  <2>3. PICK s \in Nat, v \in {1, 2} : s = Len(scopes) /\ v = w
    BY <2>1, <2>2
  <2>4. s - v \in Nat /\ s - v <= s
    BY <2>1, <2>3
  <2>5. QED
    BY <2>3, <2>4
<1>5. CompilerOK' /\ Len(scopes') = n /\ Len(block_locals') = Len(block_locals) - 1
  BY <1>2, <1>4, CutCompiler, BlockExitTyped DEF TypeInv
<1>6. Jumps(code', Heads(open')) /\ code' \in Seq(Instr) /\ Len(code) < Len(code')
  BY CloseJumps
<1>7. OpenOK'
  <2>1. LevelsOf(lev, open', Len(scopes'))
    BY <1>1, <1>2, <1>3, <1>4, <1>5, LevelsPop DEF TypeInv, OpenOK
  <2>2. open' \in Seq(Block) /\ Len(block_locals') = Len(open') + 1
    <3>1. open' \in Seq(Block) /\ Len(open') = Len(open) - 1 /\ Len(open) \in Nat
      BY <1>2, FrontIs DEF TypeInv, OpenOK
    <3>2. QED
      BY <1>5, <3>1 DEF TypeInv, OpenOK
  <2>3. code \in Seq(Instr) /\ Len(code) <= Len(code')
    <3>1. code \in Seq(Instr)
      BY DEF TypeInv, Jumps
    <3>2. Len(code) \in Nat /\ Len(code') \in Nat
      BY <1>6, <3>1, LenProperties
    <3>3. QED
      BY <1>6, <3>1, <3>2
  <2>4. \A k \in DOMAIN open' : open'[k].head <= Len(code') + 1
    BY <1>2, <1>6, <2>3, HeadsWithin DEF TypeInv
  <2>5. QED
    BY <2>1, <2>2, <2>4 DEF OpenOK, Levels
<1>8. Stage' /\ FrameOK'
  BY <1>2, StillCompiling DEF TypeInv
<1>9. QED
  BY <1>5, <1>6, <1>7, <1>8 DEF TypeInv

\* The code before an else.
Then == Append(Closed, Jump(0))

ElseBind(sc) == Append(Front(sc), Empty)

LEMMA ElseFacts ==
    ASSUME TypeInv, Else
    PROVE  /\ status = "compiling" /\ Len(open) > 0
           /\ stmts < MaxStmts /\ stmts' = stmts + 1
           /\ Last(open).kind = "if" /\ Last(open) \in Block
           /\ code' = Patch(Then, Last(open).head)
           /\ \E b \in Block : /\ open' = Append(Front(open), b)
                               /\ b.kind = "else" /\ b.head = Len(code) + 2
           /\ scopes' = ElseBind(scopes)
           /\ block_locals' = Append(Front(block_locals), {})
           /\ UNCHANGED <<variables, function_locals, declared>>
           /\ UNCHANGED <<status, pc, frame, library, cell, result, lives, calls>>
           /\ Then \in Seq(Instr) /\ Len(Then) = Len(code) + 2
           /\ Jumps(Then, Heads(open) \cup {Len(code) + 2})
           /\ Jump(0) \in Instr /\ Jump(0).op = "jump"
<1>1. open \in Seq(Block) /\ open # <<>>
  BY DEF Else, TypeInv, OpenOK
<1>2. Len(open) > 0
  BY <1>1, EmptySeq
<1>3. PICK c \in Seq(Instr), n \in Nat : /\ c = Closed /\ n = Len(code) /\ Len(c) = n + 1
                                        /\ Jumps(c, Heads(open))
  BY LoopedJumps
<1>4. PICK i \in Instr : i = Jump(0) /\ i.op = "jump" /\ i.op \in JumpOps
  BY InstrMade DEF JumpOps
<1>5. PICK t \in Seq(Instr) : /\ t = Append(c, i) /\ Len(t) = Len(c) + 1
                              /\ Jumps(t, Heads(open) \cup {Len(c) + 1})
  <2>1. Jumps(Append(c, i), Heads(open) \cup {Len(c) + 1})
    BY <1>3, <1>4, JumpsAppend
  <2>2. QED
    BY <2>1, Appended
<1>6. Len(c) + 1 = n + 2
  BY <1>3
<1>7. t = Then /\ code \o <<BlockExit, Jump(0)>> = t
  <2>1. code \in Seq(Instr) /\ BlockExit \in Instr
    BY BlockExitTyped DEF TypeInv, Jumps
  <2>2. code \o <<BlockExit, i>> = Append(Append(code, BlockExit), i)
    BY <2>1, Emitted
  <2>3. QED
    BY <1>3, <1>4, <1>5, <2>2 DEF Then, Closed
<1>8. PICK b \in Block : b = [kind |-> "else", head |-> n + 2] /\ b.kind = "else" /\ b.head = n + 2
  <2>1. "else" \in Kinds /\ n + 2 \in Nat /\ n + 2 > 0
    BY DEF Kinds
  <2>2. QED
    BY <2>1, BlockMade
<1>9. Len(code \o <<BlockExit, Jump(0)>>) = n + 2
  BY <1>5, <1>6, <1>7
<1>10. /\ status = "compiling" /\ stmts < MaxStmts /\ stmts' = stmts + 1
       /\ Last(open).kind = "if"
       /\ code' = Patch(t, Last(open).head)
       /\ open' = Append(Front(open), b)
       /\ scopes' = ElseBind(scopes)
       /\ block_locals' = Append(Front(block_locals), {})
       /\ UNCHANGED <<variables, function_locals, declared>>
       /\ UNCHANGED <<status, pc, frame, library, cell, result, lives, calls>>
  BY <1>7, <1>8, <1>9 DEF Else, ElseBind
<1>11. Last(open) \in Block
  BY <1>1, <1>2, FrontIs
<1>12. QED
  BY <1>2, <1>3, <1>4, <1>5, <1>6, <1>7, <1>8, <1>10, <1>11

LEMMA ElseScopes ==
    ASSUME NEW sc \in Seq(Scope), Len(sc) > 0
    PROVE  /\ ElseBind(sc) \in Seq(Scope)
           /\ Len(ElseBind(sc)) = Len(sc)
           /\ DOMAIN ElseBind(sc) = 1 .. Len(sc)
           /\ DOMAIN sc = 1 .. Len(sc) /\ Len(sc) \in Nat \ {0}
           /\ \A i \in 1 .. Len(sc) - 1 : ElseBind(sc)[i] = sc[i]
           /\ \A m \in Names : ElseBind(sc)[Len(sc)][m] = None
<1>1. PICK l \in Nat \ {0} : l = Len(sc)
  BY LenProperties
<1>2. PICK f \in Seq(Scope) : /\ f = Front(sc) /\ Len(f) = l - 1 /\ DOMAIN sc = 1 .. l
                              /\ \A i \in 1 .. l - 1 : f[i] = sc[i]
  BY <1>1, FrontIs
<1>3. PICK e \in Scope : e = Empty /\ \A m \in Names : e[m] = None
  <2>1. Empty \in Scope /\ \A m \in Names : Empty[m] = None
    BY DEF Empty, Scope, Targets
  <2>2. QED
    BY <2>1
<1>4. PICK g \in Seq(Scope) : /\ g = Append(f, e) /\ Len(g) = Len(f) + 1
                              /\ DOMAIN g = 1 .. Len(f) + 1
                              /\ \A i \in 1 .. Len(f) : g[i] = f[i]
                              /\ g[Len(f) + 1] = e
  BY PushIs
<1>5. Len(f) + 1 = l
  BY <1>2
<1>6. \A i \in 1 .. l - 1 : g[i] = sc[i]
  BY <1>2, <1>4
<1>7. Len(g) = l /\ DOMAIN g = 1 .. l /\ g[l] = e
  <2>1. Len(g) = Len(f) + 1 /\ DOMAIN g = 1 .. Len(f) + 1 /\ g[Len(f) + 1] = e
    BY <1>4
  <2>2. QED
    BY <1>5, <2>1, Zenon
<1>8. g = ElseBind(sc)
  BY <1>2, <1>3, <1>4 DEF ElseBind
<1>9. QED
  BY <1>1, <1>2, <1>3, <1>6, <1>7, <1>8

LEMMA ElseType ==
    ASSUME TypeInv, Else
    PROVE  TypeInv'
<1>1. PICK sc \in Seq(Scope), s \in Nat \ {0} : sc = scopes /\ s = Len(sc)
  BY BlockExitTyped DEF TypeInv, CompilerOK
<1>2. /\ scopes' \in Seq(Scope) /\ Len(scopes') = s
      /\ DOMAIN scopes' = 1 .. s /\ DOMAIN scopes = 1 .. s
      /\ \A i \in 1 .. s - 1 : scopes'[i] = sc[i]
      /\ \A m \in Names : scopes'[s][m] = None
  <2>1. scopes' = ElseBind(sc)
    BY <1>1, ElseFacts
  <2>2. PICK g : g = ElseBind(sc)
    OBVIOUS
  <2>3. /\ g \in Seq(Scope) /\ Len(g) = Len(sc)
        /\ DOMAIN g = 1 .. Len(sc) /\ DOMAIN sc = 1 .. Len(sc)
        /\ \A i \in 1 .. Len(sc) - 1 : g[i] = sc[i]
        /\ \A m \in Names : g[Len(sc)][m] = None
    BY <1>1, <2>2, ElseScopes
  <2>4. scopes' = g /\ DOMAIN scopes = DOMAIN sc /\ Len(sc) = s
    BY <1>1, <2>1, <2>2
  <2>5. /\ g \in Seq(Scope) /\ Len(g) = s /\ DOMAIN g = 1 .. s /\ DOMAIN scopes = 1 .. s
    BY <2>3, <2>4
  <2>6. (\A i \in 1 .. s - 1 : g[i] = sc[i]) /\ \A m \in Names : g[s][m] = None
    BY <2>3, <2>4
  <2>7. QED
    BY <2>4, <2>5, <2>6
<1>3. block_locals' \in Seq(SUBSET Names) /\ Len(block_locals') = Len(block_locals)
  <2>1. PICK b \in Seq(SUBSET Names), l \in Nat \ {0} : b = block_locals /\ l = Len(b)
    BY BlockExitTyped, LenProperties DEF TypeInv, CompilerOK
  <2>2. PICK f \in Seq(SUBSET Names) : f = Front(b) /\ Len(f) = l - 1
    BY <2>1, FrontIs
  <2>3. PICK e \in SUBSET Names : e = {}
    OBVIOUS
  <2>4. Append(f, e) \in Seq(SUBSET Names) /\ Len(Append(f, e)) = Len(f) + 1
    BY PushIs
  <2>5. Len(f) + 1 = l
    BY <2>2
  <2>6. QED
    BY <2>1, <2>2, <2>3, <2>4, <2>5, ElseFacts
<1>4. CompilerOK'
  <2>1. declared' \in 0 .. stmts' /\ stmts' \in 0 .. MaxStmts
    BY ElseFacts, NamesAssumption DEF TypeInv, CompilerOK
  <2>2. ASSUME NEW i \in 1 .. s, NEW m \in Names, scopes'[i][m] # None
        PROVE  variables'[m] # None
    <3>1. i = s \/ i \in 1 .. s - 1
      OBVIOUS
    <3>2. i \in 1 .. s - 1 /\ sc[i][m] # None
      BY <1>2, <2>2, <3>1
    <3>3. QED
      BY <1>1, <1>2, <3>2, ElseFacts DEF TypeInv, CompilerOK
  <2>3. QED
    BY <1>2, <1>3, <2>1, <2>2, ElseFacts DEF TypeInv, CompilerOK
<1>5. PICK o \in Seq(Block), b \in Block, n \in Nat :
         /\ o = open /\ Len(o) > 0 /\ open' = Append(Front(o), b)
         /\ n = Len(code) /\ b.kind = "else" /\ b.head = n + 2
  BY ElseFacts, LenProperties DEF TypeInv, OpenOK, Jumps
<1>6. PICK f \in Seq(Block) : /\ f = Front(o) /\ Len(f) = Len(o) - 1 /\ DOMAIN f = 1 .. Len(o) - 1
                              /\ Len(o) \in Nat
  BY <1>5, FrontIs
<1>7. PICK h \in Nat : h = Last(o).head
  BY <1>5, ElseFacts DEF Block
<1>8. PICK t \in Seq(Instr) : /\ t = Then /\ Len(t) = n + 2 /\ code' = Patch(t, h)
                              /\ Jumps(t, Heads(o) \cup {n + 2})
  BY <1>5, <1>7, ElseFacts
<1>9. Heads(open') = Heads(f) \cup {n + 2}
  BY <1>5, <1>6, HeadsPush
<1>10. /\ h \in Heads(o) \cup {n + 2}
       /\ Heads(f) \cup {n + 2} \subseteq Heads(o) \cup {n + 2}
       /\ (Heads(o) \cup {n + 2}) \ {h} \subseteq Heads(f) \cup {n + 2}
  <2>1. Last(o).kind # "block"
    BY <1>5, ElseFacts
  <2>2. QED
    BY <1>5, <1>6, <1>7, <2>1, HeadsPop
<1>11. Jumps(code', Heads(open')) /\ code' \in Seq(Instr) /\ Len(code') = n + 2
  BY <1>8, <1>9, <1>10, PatchedJumps
<1>12. OpenOK'
  <2>1. PICK lev : LevelsOf(lev, o, s)
    BY <1>1, <1>5 DEF TypeInv, OpenOK, Levels
  <2>2. Width(Last(o).kind) = 1 /\ Width(b.kind) = 1
    BY <1>5, ElseFacts DEF Width
  <2>3. LevelsOf(lev, f, s - 1) /\ s - 1 + 1 = s
    BY <1>5, <1>6, <2>1, <2>2, LevelsPop
  <2>4. \E up : LevelsOf(up, open', Len(scopes'))
    BY <1>2, <1>5, <1>6, <2>2, <2>3, LevelsPush
  <2>5. /\ open' \in Seq(Block) /\ Len(open') = Len(f) + 1 /\ DOMAIN open' = 1 .. Len(f) + 1
        /\ \A k \in 1 .. Len(f) : open'[k] = f[k]
        /\ open'[Len(f) + 1] = b
    BY <1>5, <1>6, PushIs
  <2>6. code \in Seq(Instr) /\ Len(code) <= Len(code')
    BY <1>5, <1>11 DEF TypeInv, Jumps
  <2>7. \A k \in DOMAIN f : f[k].head <= Len(code') + 1
    BY <1>5, <1>6, <1>11, <2>6, HeadsWithin DEF TypeInv
  <2>8. ASSUME NEW k \in DOMAIN open' PROVE open'[k].head <= Len(code') + 1
    <3>1. PICK m \in Nat : m = Len(f) /\ DOMAIN f = 1 .. m /\ DOMAIN open' = 1 .. m + 1
      BY <1>6, <2>5, LenProperties
    <3>2. k = m + 1 \/ k \in 1 .. m
      BY <2>8, <3>1
    <3>3. CASE k = m + 1
      BY <1>5, <1>11, <2>5, <3>1, <3>3
    <3>4. CASE k \in 1 .. m
      BY <2>5, <2>7, <3>1, <3>4
    <3>5. QED
      BY <3>2, <3>3, <3>4
  <2>9. Len(block_locals') = Len(open') + 1
    BY <1>3, <1>5, <1>6, <2>5 DEF TypeInv, OpenOK
  <2>10. QED
    BY <2>4, <2>5, <2>8, <2>9 DEF OpenOK, Levels
<1>13. Stage' /\ FrameOK'
  BY ElseFacts, StillCompiling DEF TypeInv
<1>14. QED
  BY <1>4, <1>11, <1>12, <1>13 DEF TypeInv

LEMMA NoHeads == Heads(<<>>) = {}
BY DEF Heads

LEMMA FinishFacts ==
    ASSUME TypeInv, Finish
    PROVE  \E r \in Instr, t \in Instr :
              /\ status = "compiling" /\ open = <<>> /\ status' = "running"
              /\ r.op = "exit" /\ r.release = Allocas(function_locals) /\ r.ends = {}
              /\ t.op = "ret"
              /\ code' = Append(Append(Closed, r), t)
              /\ UNCHANGED <<scopes, open, variables, block_locals, function_locals, declared,
                             stmts>>
              /\ UNCHANGED <<pc, frame, library, cell, result, lives, calls>>
<1>1. code \in Seq(Instr) /\ BlockExit \in Instr
  BY BlockExitTyped DEF TypeInv, Jumps
<1>2. PICK r \in Instr : /\ r = Exit(Allocas(function_locals), {})
                         /\ r.op = "exit" /\ r.release = Allocas(function_locals) /\ r.ends = {}
  <2>1. Allocas(function_locals) \in SUBSET Targets /\ {} \in SUBSET Decls
    BY MadeOfNames DEF TypeInv
  <2>2. QED
    BY <2>1, InstrMade
<1>3. PICK t \in Instr : t = Ret(None) /\ t.op = "ret"
  BY InstrMade DEF Targets
<1>4. code' = code \o <<BlockExit, r, t>>
  BY <1>2, <1>3 DEF Finish, Emit
<1>5. code' = Append(Append(Closed, r), t)
  BY <1>1, <1>4, Emitted DEF Closed
<1>6. QED
  BY <1>2, <1>3, <1>5, Zenon DEF Finish

LEMMA FinishType ==
    ASSUME TypeInv, Finish
    PROVE  TypeInv'
<1>1. PICK r \in Instr, t \in Instr :
         /\ status = "compiling" /\ open = <<>> /\ status' = "running"
         /\ r.op = "exit" /\ t.op = "ret"
         /\ code' = Append(Append(Closed, r), t)
         /\ UNCHANGED <<scopes, open, variables, block_locals, function_locals, declared, stmts>>
         /\ UNCHANGED <<pc, frame, library, cell, result, lives, calls>>
  BY FinishFacts
<1>2. PICK c \in Seq(Instr), n \in Nat : /\ c = Closed /\ n = Len(code) /\ Len(c) = n + 1
                                        /\ Jumps(c, {})
  BY <1>1, LoopedJumps, NoHeads
<1>3. r.op \notin JumpOps /\ t.op \notin JumpOps
  BY <1>1 DEF JumpOps
<1>4. PICK d \in Seq(Instr) : /\ d = Append(c, r) /\ Len(d) = n + 2 /\ Jumps(d, {})
                              /\ \A i \in 1 .. n + 1 : d[i] = c[i]
                              /\ d[n + 2] = r
  <2>1. Jumps(Append(c, r), {})
    BY <1>2, <1>3, JumpsPlain
  <2>2. PICK d \in Seq(Instr) : d = Append(c, r) /\ Len(d) = Len(c) + 1
                                /\ (\A i \in 1 .. Len(c) : d[i] = c[i]) /\ d[Len(c) + 1] = r
    BY Appended
  <2>3. Len(c) + 1 = n + 2
    BY <1>2
  <2>4. QED
    BY <1>2, <2>1, <2>2, <2>3
<1>5. PICK e \in Seq(Instr) : /\ e = Append(d, t) /\ Len(e) = n + 3 /\ Jumps(e, {})
                              /\ \A i \in 1 .. n + 2 : e[i] = d[i]
                              /\ e[n + 3] = t
                              /\ DOMAIN e = 1 .. n + 3
  <2>1. Jumps(Append(d, t), {})
    BY <1>3, <1>4, JumpsPlain
  <2>2. PICK e \in Seq(Instr) : /\ e = Append(d, t) /\ Len(e) = Len(d) + 1
                                /\ DOMAIN e = 1 .. Len(d) + 1
                                /\ (\A i \in 1 .. Len(d) : e[i] = d[i]) /\ e[Len(d) + 1] = t
    BY Appended
  <2>3. Len(d) + 1 = n + 3
    BY <1>4
  <2>4. QED
    BY <1>4, <2>1, <2>2, <2>3
<1>6. code' = e
  BY <1>1, <1>2, <1>4, <1>5
<1>7. ASSUME NEW i \in 1 .. n + 3, e[i].op \in JumpOps PROVE e[i].to \in 1 .. n + 3
  <2>1. i \in 1 .. n + 1 \/ i = n + 2 \/ i = n + 3
    OBVIOUS
  <2>2. i \in 1 .. n + 1 /\ e[i] = c[i]
    BY <1>3, <1>4, <1>5, <1>7, <2>1
  <2>3. DOMAIN c = 1 .. n + 1
    BY <1>2, LenProperties
  <2>4. c[i].to \in 1 .. n + 1 + 1
    BY <1>2, <1>7, <2>2, <2>3 DEF Jumps
  <2>5. QED
    BY <2>2, <2>4
<1>8. Stage'
  <2>1. pc' = 1 /\ Ended' /\ open' = <<>>
    BY <1>1 DEF TypeInv, Stage, Ended
  <2>2. Last(code').op = "ret"
    BY <1>1, <1>5, <1>6 DEF Last
  <2>3. DOMAIN code' = 1 .. n + 3 /\ 1 \in 1 .. n + 3
    BY <1>5, <1>6
  <2>4. QED
    BY <1>6, <1>7, <2>1, <2>2, <2>3 DEF Stage
<1>9. OpenOK'
  <2>1. code \in Seq(Instr) /\ code' \in Seq(Instr) /\ Len(code) <= Len(code')
    BY <1>2, <1>5, <1>6 DEF TypeInv, Jumps
  <2>2. QED
    BY <1>1, <2>1, OpenSame DEF TypeInv
<1>10. FrameOK' /\ CompilerOK'
  BY <1>1 DEF TypeInv, FrameOK, CompilerOK, frame, library, lives
<1>11. Jumps(code', Heads(open'))
  BY <1>1, <1>5, <1>6, NoHeads
<1>12. QED
  BY <1>8, <1>9, <1>10, <1>11 DEF TypeInv

LEMMA RejectType ==
    ASSUME TypeInv, Reject
    PROVE  TypeInv'
<1>1. /\ status = "compiling" /\ open = <<>> /\ status' = "rejected"
      /\ UNCHANGED <<compiler, pc, frame, library, cell, result, lives, calls>>
  BY DEF Reject
<1>2. QED
  BY <1>1 DEF TypeInv, CompilerOK, OpenOK, Levels, Stage, Ended, FrameOK, compiler, frame,
              library, lives

LEMMA PointerTyped ==
    /\ NullPtr \in Pointer
    /\ \A t \in Decls, k \in Nat, o \in Nat : [to |-> t, key |-> k, of |-> o] \in Pointer
    /\ \A p \in Pointer : [p EXCEPT !.key = NoKey] \in Pointer
BY DEF NullPtr, Pointer, None, NoKey, Dead

\* The program leaves what the compiler made as it is.
LEMMA CompilerSame ==
    ASSUME TypeInv, UNCHANGED compiler
    PROVE  CompilerOK' /\ OpenOK' /\ Jumps(code', Heads(open'))
BY DEF TypeInv, CompilerOK, OpenOK, Levels, compiler

LEMMA StageRuns ==
    ASSUME TypeInv, UNCHANGED compiler, Ended, Ended', pc' \in DOMAIN code
    PROVE  Stage'
BY DEF TypeInv, Stage, compiler, Ended

LEMMA NextInstruction ==
    ASSUME TypeInv, status = "running"
    PROVE  /\ pc \in DOMAIN code /\ code[pc] \in Instr
           /\ code[pc].op # "ret" => pc + 1 \in DOMAIN code
           /\ code[pc].op \in JumpOps => code[pc].to \in DOMAIN code
<1>1. /\ pc \in DOMAIN code /\ code \in Seq(Instr)
      /\ Last(code).op = "ret"
      /\ code[pc].op \in JumpOps => code[pc].to \in DOMAIN code
  BY DEF TypeInv, Stage, Ended, Jumps
<1>2. code[pc] \in Instr /\ DOMAIN code = 1 .. Len(code) /\ Len(code) \in Nat
  BY <1>1, LenProperties
<1>3. ASSUME code[pc].op # "ret" PROVE pc + 1 \in DOMAIN code
  <2>1. pc # Len(code)
    BY <1>1, <1>3 DEF Last
  <2>2. QED
    BY <1>1, <1>2, <2>1
<1>4. QED
  BY <1>1, <1>2, <1>3

LEMMA RunStays ==
    ASSUME TypeInv, UNCHANGED compiler, FrameOK', Ended, Ended', pc' \in DOMAIN code
    PROVE  TypeInv'
BY CompilerSame, StageRuns DEF TypeInv

LEMMA RunType ==
    ASSUME TypeInv, Running
    PROVE  TypeInv'
<1>1. ASSUME NEW op, At(op), op # "ret", Advance
      PROVE  /\ UNCHANGED compiler /\ UNCHANGED calls
             /\ pc' \in DOMAIN code /\ code[pc] \in Instr /\ code[pc].op = op
             /\ status = "running"
  BY <1>1, NextInstruction DEF At, Advance
<1>2. CASE RunDeclare
  <2>1. PICK d : d = code[pc].var
    OBVIOUS
  <2>2. /\ At("declare") /\ nextKey <= MaxKeys /\ nextKey' = nextKey + 1
        /\ keySlot' = [keySlot EXCEPT ![d] = nextKey]
        /\ keyTable' = [keyTable EXCEPT ![d] = nextKey]
        /\ pointer' = [pointer EXCEPT ![d] = NullPtr]
        /\ births' = births + 1
        /\ alive' = [alive EXCEPT ![d] = births + 1]
        /\ Advance
        /\ UNCHANGED <<status, cell, result>>
    BY <1>2, <2>1 DEF RunDeclare
  <2>3. /\ UNCHANGED compiler /\ UNCHANGED calls /\ pc' \in DOMAIN code /\ d \in Decls
        /\ status = "running"
    BY <1>1, <2>1, <2>2, InstrTyped
  <2>4. nextKey \in 1 .. MaxKeys + 1 /\ nextKey \in Nat /\ nextKey' \in 1 .. MaxKeys + 1
    BY <2>2, NamesAssumption DEF TypeInv, FrameOK
  <2>5. births' \in Nat /\ births + 1 \in Nat
    BY <2>2 DEF TypeInv, FrameOK
  <2>6. FrameOK'
    BY <2>2, <2>3, <2>4, <2>5, PointerTyped DEF TypeInv, FrameOK
  <2>7. QED
    BY <2>2, <2>3, <2>6, RunStays DEF Ended
<1>3. CASE RunAssign
  <2>1. PICK op \in {"addr", "copy", "load"} : At(op) /\ Advance
    BY <1>3 DEF RunAssign
  <2>2. /\ UNCHANGED compiler /\ UNCHANGED calls /\ pc' \in DOMAIN code
        /\ code[pc] \in Instr /\ code[pc].op = op /\ status = "running"
    BY <1>1, <2>1
  <2>3. PICK v \in Pointer : pointer' = [pointer EXCEPT ![code[pc].ptr] = v]
    <3>1. CASE At("copy")
      <4>1. pointer[code[pc].from] \in Pointer
        BY <2>2, <3>1, InstrTyped DEF At, TypeInv, FrameOK
      <4>2. pointer' = [pointer EXCEPT ![code[pc].ptr] = pointer[code[pc].from]]
        BY <1>3, <3>1 DEF RunAssign, At, Point
      <4>3. QED
        BY <4>1, <4>2
    <3>2. CASE At("load")
      BY <1>3, <3>2 DEF RunAssign, At, Point, TypeInv, FrameOK
    <3>3. CASE At("addr")
      <4>1. PICK d \in Decls : d = code[pc].var
        BY <2>2, <3>3, InstrTyped DEF At
      <4>2. PICK k \in KeyIn(d) :
               pointer' = [pointer EXCEPT ![code[pc].ptr] = [to |-> d, key |-> k, of |-> alive[d]]]
        BY <1>3, <3>3, <4>1 DEF RunAssign, At, Point
      <4>3. k \in Nat
        <5>1. keySlot[d] # Junk => keySlot[d] \in Nat
          BY DEF TypeInv, FrameOK
        <5>2. \A j \in 0 .. nextKey - 1 : j \in Nat
          OBVIOUS
        <5>3. QED
          BY <5>1, <5>2 DEF KeyIn
      <4>4. alive[d] \in Nat
        BY DEF TypeInv, FrameOK
      <4>5. [to |-> d, key |-> k, of |-> alive[d]] \in Pointer
        BY <4>3, <4>4, PointerTyped
      <4>6. QED
        BY <4>2, <4>5
    <3>4. QED
      BY <2>1, <3>1, <3>2, <3>3
  <2>4. UNCHANGED <<status, keySlot, library, cell, result, lives>>
    BY <1>3 DEF RunAssign
  <2>5. FrameOK'
    <3>1. pointer' \in [Decls -> Pointer]
      BY <2>3 DEF TypeInv, FrameOK
    <3>2. QED
      BY <2>2, <2>4, <3>1 DEF TypeInv, FrameOK, library, lives
  <2>6. QED
    BY <2>2, <2>4, <2>5, RunStays DEF Ended
<1>4. CASE RunSave
  <2>1. At("save") /\ Advance /\ cell' = pointer[code[pc].ptr]
        /\ UNCHANGED <<status, frame, library, result, lives>>
    BY <1>4 DEF RunSave
  <2>2. /\ UNCHANGED compiler /\ UNCHANGED calls /\ pc' \in DOMAIN code
        /\ code[pc].ptr \in Decls /\ status = "running"
    BY <1>1, <2>1, InstrTyped
  <2>3. FrameOK'
    BY <2>1, <2>2 DEF TypeInv, FrameOK, frame, library, lives
  <2>4. QED
    BY <2>1, <2>2, <2>3, RunStays DEF Ended
<1>5. CASE RunDeref
  <2>1. At("deref") /\ UNCHANGED <<frame, library, cell, result, lives>>
    BY <1>5 DEF RunDeref
  <2>2. status = "running" /\ code[pc].op = "deref"
    BY <2>1 DEF At
  <2>3. \/ Advance /\ UNCHANGED status
        \/ status' = "aborted" /\ UNCHANGED <<compiler, pc, calls>>
    BY <1>5 DEF RunDeref
  <2>4. UNCHANGED compiler /\ UNCHANGED calls
    BY <2>3 DEF Advance
  <2>5. pc' \in DOMAIN code
    <3>1. CASE Advance
      BY <1>1, <2>1, <3>1
    <3>2. CASE UNCHANGED <<compiler, pc, calls>>
      BY <2>2, <3>2, NextInstruction
    <3>3. QED
      BY <2>3, <3>1, <3>2
  <2>6. FrameOK'
    BY <2>1, <2>4 DEF TypeInv, FrameOK, frame, library, lives
  <2>7. QED
    BY <2>2, <2>3, <2>4, <2>5, <2>6, RunStays DEF Ended
<1>6. CASE RunBranch
  <2>1. /\ UNCHANGED <<compiler, status, frame, library, cell, result, lives, calls>>
        /\ status = "running" /\ code[pc].op \in JumpOps
        /\ pc' = pc + 1 \/ pc' = code[pc].to
    BY <1>6 DEF RunBranch, At, JumpOps
  <2>2. pc' \in DOMAIN code
    BY <2>1, NextInstruction DEF JumpOps
  <2>3. FrameOK'
    BY <2>1 DEF TypeInv, FrameOK, frame, library, lives
  <2>4. QED
    BY <2>1, <2>2, <2>3, RunStays DEF Ended
<1>7. CASE RunExit
  <2>1. PICK i : i = code[pc]
    OBVIOUS
  <2>2. /\ At("exit") /\ Advance
        /\ keyTable' = [d \in Decls |-> IF d \in i.release THEN NoKey ELSE keyTable[d]]
        /\ alive' = [d \in Decls |-> IF d \in i.ends THEN Dead ELSE alive[d]]
        /\ UNCHANGED <<status, frame, nextKey, cell, result, births>>
    BY <1>7, <2>1 DEF RunExit
  <2>3. UNCHANGED compiler /\ UNCHANGED calls /\ pc' \in DOMAIN code /\ status = "running"
    BY <1>1, <2>2
  <2>4. FrameOK'
    BY <2>2, <2>3 DEF TypeInv, FrameOK, frame, NoKey, Dead
  <2>5. QED
    BY <2>2, <2>3, <2>4, RunStays DEF Ended
<1>8. CASE RunRet
  <2>1. PICK p : p = code[pc].ptr
    OBVIOUS
  <2>2. /\ At("ret") /\ status' = "returned"
        /\ result' = IF p = None THEN NullPtr ELSE [pointer[p] EXCEPT !.key = NoKey]
        /\ alive' = [d \in Decls |-> Dead]
        /\ keySlot' = [d \in Decls |-> Junk]
        /\ pointer' = [d \in Decls |-> NullPtr]
        /\ UNCHANGED <<compiler, pc, library, cell, births, calls>>
    BY <1>8, <2>1 DEF RunRet
  <2>3. status = "running" /\ code[pc].op = "ret"
    BY <2>2 DEF At
  <2>4. pc \in DOMAIN code /\ code[pc] \in Instr /\ p \in Targets
    BY <2>1, <2>3, NextInstruction, InstrTyped
  <2>5. result' \in Pointer
    <3>1. CASE p = None
      BY <2>2, <3>1, PointerTyped
    <3>2. CASE p # None
      <4>1. pointer[p] \in Pointer
        BY <2>4, <3>2 DEF TypeInv, FrameOK, Targets
      <4>2. QED
        BY <2>2, <3>2, <4>1, PointerTyped
    <3>3. QED
      BY <3>1, <3>2
  <2>6. FrameOK'
    BY <2>2, <2>5, PointerTyped DEF TypeInv, FrameOK, library, Dead
  <2>7. QED
    BY <2>2, <2>3, <2>4, <2>6, RunStays DEF Ended
<1>9. CASE Call
  <2>1. /\ status = "returned" /\ status' = "running" /\ pc' = 1
        /\ calls < MaxCalls /\ calls' = calls + 1 /\ result' = NullPtr
        /\ UNCHANGED <<compiler, frame, library, cell, lives>>
    BY <1>9 DEF Call
  <2>2. pc' \in DOMAIN code
    <3>1. pc \in DOMAIN code /\ code \in Seq(Instr)
      BY <2>1 DEF TypeInv, Stage, Ended, Jumps
    <3>2. DOMAIN code = 1 .. Len(code) /\ Len(code) \in Nat
      BY <3>1, LenProperties
    <3>3. QED
      BY <2>1, <3>1, <3>2
  <2>3. FrameOK'
    <3>1. calls' \in 0 .. MaxCalls
      BY <2>1, NamesAssumption DEF TypeInv, FrameOK
    <3>2. QED
      BY <2>1, <3>1, PointerTyped DEF TypeInv, FrameOK, frame, library, lives
  <2>4. QED
    BY <2>1, <2>2, <2>3, RunStays DEF Ended
<1>10. CASE CallerDeref
  <2>1. /\ status = "returned" /\ status' = "aborted"
        /\ UNCHANGED <<compiler, pc, frame, library, cell, result, lives, calls>>
    BY <1>10 DEF CallerDeref
  <2>2. pc' \in DOMAIN code
    BY <2>1 DEF TypeInv, Stage, Ended
  <2>3. FrameOK'
    BY <2>1 DEF TypeInv, FrameOK, frame, library, lives
  <2>4. QED
    BY <2>1, <2>2, <2>3, RunStays DEF Ended
<1>11. QED
  BY <1>2, <1>3, <1>4, <1>5, <1>6, <1>7, <1>8, <1>9, <1>10 DEF Running

LEMMA InitType ==
    ASSUME Init
    PROVE  TypeInv
<1>1. Empty \in Scope /\ Empty \in [Names -> Targets] /\ \A n \in Names : Empty[n] = None
  BY DEF Empty, Scope, Targets
<1>2. CompilerOK
  <2>1. scopes \in Seq(Scope) /\ DOMAIN scopes = {1} /\ scopes[1] = Empty
    BY <1>1 DEF Init
  <2>2. block_locals \in Seq(SUBSET Names)
    BY DEF Init
  <2>3. QED
    BY <1>1, <2>1, <2>2, NamesAssumption DEF Init, CompilerOK
<1>3. OpenOK
  <2>1. PICK lev : lev = [k \in Nat |-> 1]
    OBVIOUS
  <2>2. Len(open) = 0 /\ Len(scopes) = 1 /\ Len(block_locals) = 1 /\ DOMAIN open = {}
    BY DEF Init
  <2>3. lev \in [Nat -> Nat] /\ lev[0] = 1
    BY <2>1
  <2>4. LevelsOf(lev, open, 1)
    <3>1. \A k \in 1 .. 0 : FALSE
      OBVIOUS
    <3>2. \A k \in 0 .. 0, j \in 0 .. 0 : ~(j < k)
      OBVIOUS
    <3>3. QED
      BY <2>2, <2>3, <3>1, <3>2, LevelsDef
  <2>5. open \in Seq(Block)
    BY DEF Init
  <2>6. QED
    BY <2>2, <2>4, <2>5 DEF OpenOK, Levels
<1>4. Jumps(code, Heads(open))
  BY NoHeads DEF Init, Jumps
<1>5. Stage
  BY DEF Init, Stage, Ended
<1>6. FrameOK
  BY NamesAssumption, PointerTyped DEF Init, FrameOK, NoKey, Dead
<1>7. QED
  BY <1>2, <1>3, <1>4, <1>5, <1>6 DEF TypeInv

LEMMA TypeStep == TypeInv /\ [Next]_vars => TypeInv'
<1>1. ASSUME TypeInv, Compiling PROVE TypeInv'
  <2>1. CASE Compound
    BY <1>1, <2>1, OpenType DEF Compound
  <2>2. CASE If
    BY <1>1, <2>2, OpenType DEF If
  <2>3. CASE While
    BY <1>1, <2>3, OpenType DEF While
  <2>4. CASE \E n \in Names : Decl(n)
    BY <1>1, <2>4, DeclType
  <2>5. CASE \E n \in Ints : For(n)
    BY <1>1, <2>5, ForType
  <2>6. QED
    BY <1>1, <2>1, <2>2, <2>3, <2>4, <2>5, ExprType, ElseType, CloseType, ReturnType,
       FinishType, RejectType DEF Compiling
<1>2. ASSUME TypeInv, UNCHANGED vars PROVE TypeInv'
  BY <1>2 DEF vars, compiler, frame, library, lives, TypeInv, CompilerOK, OpenOK, Levels, Stage,
              Ended, FrameOK
<1>3. QED
  BY <1>1, <1>2, RunType DEF Next, Over

LEMMA TypeInvIsTypeOK == TypeInv => TypeOK
<1>1. SUFFICES ASSUME TypeInv PROVE TypeOK
  OBVIOUS
<1>2. Len(code) \in Nat /\ DOMAIN code = 1 .. Len(code) /\ Here = Len(code) + 1
  BY LenProperties DEF TypeInv, Jumps, Here
<1>3. pc \in 1 .. Here
  BY <1>1, <1>2 DEF TypeInv, Stage
<1>4. ASSUME NEW k \in DOMAIN open PROVE open[k].kind \in Kinds /\ open[k].head \in 1 .. Here
  <2>1. open[k] \in Block
    BY <1>1, LenProperties DEF TypeInv, OpenOK
  <2>2. open[k].kind \in Kinds /\ open[k].head \in Nat \ {0}
    BY <2>1 DEF Block
  <2>3. open[k].head <= Len(code) + 1
    BY <1>1 DEF TypeInv, OpenOK
  <2>4. QED
    BY <1>2, <2>2, <2>3
<1>5. status \in {"compiling", "running", "returned", "aborted", "rejected"}
  BY <1>1 DEF TypeInv, Stage, Ended
<1>6. QED
  BY <1>1, <1>3, <1>4, <1>5 DEF TypeInv, TypeOK, CompilerOK, FrameOK, Scope, Kinds

\* Compiler and run stay within their types, with shadowing too: the head an open statement
\* patches is in the code, and every jump gen_stmt emits leads into the code, so that control
\* never leaves it.
THEOREM ScopeTypes == Spec => []TypeOK
<1>1. Init => TypeInv
  BY InitType
<1>2. TypeInv /\ [Next]_vars => TypeInv'
  BY TypeStep
<1>3. QED
  BY <1>1, <1>2, TypeInvIsTypeOK, PTL DEF Spec


-----------------------------------------------------------------------------
(* The states in which instructions are reached *)

LEMMA EffectIs ==
    ASSUME NEW i \in Instr, NEW a, NEW b, NEW cs
    PROVE  /\ i.op = "declare" =>
                 (Effect(i, a, b, cs) <=>
                    b = [live |-> a.live \cup {i.var}, keyed |-> a.keyed \cup {i.var}])
           /\ i.op = "exit" =>
                 (Effect(i, a, b, cs) <=>
                    /\ b = [live |-> a.live \ i.ends, keyed |-> a.keyed \ (i.release \cup i.ends)]
                    /\ i.ends \ i.release \subseteq cs)
           /\ i.op = "addr" => (Effect(i, a, b, cs) <=> b = a /\ i.var \in a.live)
           /\ i.op = "deref" =>
                 (Effect(i, a, b, cs) <=>
                    b = a /\ ("return_deref" \notin Forms => a.keyed = a.live))
           /\ i.op = "ret" => (Effect(i, a, b, cs) <=> a.keyed = {})
           /\ i.op \in {"copy", "save", "load", "branch", "jump"} =>
                 (Effect(i, a, b, cs) <=> b = a)
BY Zenon DEF Effect

LEMMA EffectKept ==
    ASSUME NEW i \in Instr, NEW a, NEW b, NEW cs, NEW ds, cs \subseteq ds, Effect(i, a, b, cs)
    PROVE  Effect(i, a, b, ds)
BY EffectIs, InstrTyped

LEMMA EffectOfJump ==
    ASSUME NEW i \in Instr, i.op \in JumpOps, NEW a, NEW b, NEW cs
    PROVE  Effect(i, a, b, cs) <=> b = a
BY EffectIs DEF JumpOps

LEMMA BothIs ==
    \A s \in SUBSET Decls : Both(s) \in States /\ Both(s).live = s /\ Both(s).keyed = s
BY DEF Both, States

\* up gives the state after instruction n + 1, and is otherwise at.
Continues(up, at, n, s) == up[n + 2] = s /\ \A j \in 1 .. n + 1 : up[j] = at[j]

LEMMA FlowAppend ==
    ASSUME NEW c, NEW n \in Nat, n = Len(c),
           NEW heads, NEW at, Jumps(c, heads), Flow(c, heads, at),
           NEW i \in Instr, NEW s \in States, NEW more, more \subseteq {n + 1},
           at[n + 1].keyed \subseteq at[n + 1].live,
           Effect(i, at[n + 1], s, Counters(Append(c, i))),
           i.op \in JumpOps => more # {} \/ (i.to \in 1 .. n + 1 /\ at[i.to] = at[n + 1])
    PROVE  \E up : Flow(Append(c, i), heads \cup more, up) /\ Continues(up, at, n, s)
<1>1. c \in Seq(Instr) /\ Len(c) \in Nat /\ DOMAIN c = 1 .. Len(c)
  BY Appended DEF Jumps
<1>2. PICK d : n \in Nat /\ d \in Seq(Instr) /\ n = Len(c) /\ d = Append(c, i)
  BY <1>1, Appended
<1>3. /\ DOMAIN d = 1 .. n + 1 /\ DOMAIN c = 1 .. n
      /\ \A j \in 1 .. n : d[j] = c[j] /\ c[j] \in Instr
      /\ d[n + 1] = i
  BY <1>1, <1>2, Appended
<1>4. heads \subseteq 1 .. n /\ more \subseteq {n + 1}
  BY <1>1, <1>2 DEF Jumps
<1>5. PICK cs, ds : cs = Counters(c) /\ ds = Counters(d) /\ cs \subseteq ds
  BY <1>1, <1>2, CountersKept
<1>6. at \in [Nat -> States] /\ at[1] = Both({})
  BY DEF Flow
<1>7. PICK up : up = [at EXCEPT ![n + 2] = s]
  OBVIOUS
<1>8. /\ up \in [Nat -> States] /\ up[n + 2] = s
      /\ \A j \in 1 .. n + 1 : up[j] = at[j]
  BY <1>2, <1>6, <1>7
<1>9. up[1] = Both({})
  BY <1>2, <1>6, <1>8
<1>10. ASSUME NEW j \in 1 .. n + 1
       PROVE  up[j].keyed \subseteq up[j].live
  <2>1. CASE j = n + 1
    BY <1>2, <1>8, <2>1
  <2>2. CASE j \in 1 .. n
    <3>1. at[j].keyed \subseteq at[j].live
      BY <1>3, <2>2 DEF Flow
    <3>2. QED
      BY <1>2, <1>8, <2>2, <3>1
  <2>3. QED
    BY <1>2, <2>1, <2>2
<1>11. ASSUME NEW j \in 1 .. n + 1
       PROVE  Effect(d[j], up[j], up[j + 1], ds)
  <2>1. CASE j = n + 1
    <3>1. Effect(i, at[n + 1], s, ds)
      BY <1>2, <1>5
    <3>2. up[j] = at[n + 1] /\ up[j + 1] = s /\ d[j] = i
      BY <1>2, <1>3, <1>8, <2>1
    <3>3. QED
      BY <3>1, <3>2
  <2>2. CASE j \in 1 .. n
    <3>1. Effect(c[j], at[j], at[j + 1], cs)
      BY <1>3, <1>5, <2>2 DEF Flow
    <3>2. j \in 1 .. n + 1 /\ j + 1 \in 1 .. n + 1
      BY <1>2, <2>2
    <3>3. up[j] = at[j] /\ up[j + 1] = at[j + 1]
      BY <1>8, <3>2
    <3>4. d[j] = c[j] /\ c[j] \in Instr
      BY <1>3, <2>2
    <3>5. Effect(c[j], at[j], at[j + 1], ds)
      BY <1>5, <3>1, <3>4, EffectKept
    <3>6. QED
      BY <3>3, <3>4, <3>5
  <2>3. QED
    BY <1>2, <2>1, <2>2
<1>12. ASSUME NEW j \in 1 .. n + 1, j \notin heads \cup more, d[j].op \in JumpOps
       PROVE  up[d[j].to] = up[j]
  <2>1. CASE j = n + 1
    <3>1. i.op \in JumpOps /\ more = {}
      BY <1>3, <1>4, <1>12, <2>1
    <3>2. i.to \in 1 .. n + 1 /\ at[i.to] = at[n + 1]
      BY <1>2, <3>1
    <3>3. QED
      BY <1>2, <1>3, <1>8, <2>1, <3>2
  <2>2. CASE j \in 1 .. n
    <3>1. c[j].to \in 1 .. n + 1
      BY <1>1, <1>2, <1>3, <1>12, <2>2 DEF Jumps
    <3>2. at[c[j].to] = at[j]
      BY <1>1, <1>3, <1>12, <2>2 DEF Flow
    <3>3. QED
      BY <1>2, <1>3, <1>8, <2>2, <3>1, <3>2
  <2>3. QED
    BY <1>2, <2>1, <2>2
<1>13. Flow(d, heads \cup more, up)
  BY <1>3, <1>5, <1>8, <1>9, <1>10, <1>11, <1>12 DEF Flow
<1>14. QED
  BY <1>2, <1>8, <1>13 DEF Continues

LEMMA FlowPatch ==
    ASSUME NEW c, NEW heads, NEW at, Jumps(c, heads), Flow(c, heads, at),
           NEW h \in heads, at[Len(c) + 1] = at[h],
           NEW left, heads \ {h} \subseteq left
    PROVE  Flow(Patch(c, h), left, at)
<1>1. c \in Seq(Instr) /\ h \in DOMAIN c /\ c[h].op \in JumpOps
  BY DEF Jumps
<1>2. PICK n, d : n \in Nat /\ d \in Seq(Instr) /\ n = Len(c) /\ d = Patch(c, h)
  BY <1>1, Patched
<1>3. /\ DOMAIN d = 1 .. n /\ DOMAIN c = 1 .. n
      /\ \A j \in 1 .. n : d[j].op = c[j].op /\ c[j] \in Instr
      /\ \A j \in (1 .. n) \ {h} : d[j] = c[j]
      /\ d[h].to = n + 1
  BY <1>1, <1>2, Patched
<1>4. \A j \in 1 .. n : d[j] \in Instr
  BY <1>2, <1>3, LenProperties
<1>5. PICK cs, ds : cs = Counters(c) /\ ds = Counters(d) /\ cs \subseteq ds
  BY <1>1, <1>2, CountersKept
<1>6. ASSUME NEW j \in 1 .. n
      PROVE  Effect(d[j], at[j], at[j + 1], ds)
  <2>1. Effect(c[j], at[j], at[j + 1], cs)
    BY <1>3, <1>5 DEF Flow
  <2>2. CASE j = h
    <3>1. at[j + 1] = at[j]
      BY <1>1, <1>3, <2>1, <2>2, EffectOfJump
    <3>2. QED
      BY <1>1, <1>3, <1>4, <2>2, <3>1, EffectOfJump
  <2>3. CASE j # h
    BY <1>3, <1>5, <2>1, <2>3, EffectKept
  <2>4. QED
    BY <2>2, <2>3
<1>7. ASSUME NEW j \in 1 .. n, j \notin left, d[j].op \in JumpOps
      PROVE  at[d[j].to] = at[j]
  <2>1. CASE j = h
    BY <1>2, <1>3, <2>1
  <2>2. CASE j # h
    <3>1. j \notin heads /\ d[j] = c[j]
      BY <1>3, <1>7, <2>2
    <3>2. QED
      BY <1>3, <1>7, <3>1 DEF Flow
  <2>3. QED
    BY <2>1, <2>2
<1>8. /\ at \in [Nat -> States] /\ at[1] = Both({})
      /\ \A j \in 1 .. n : at[j].keyed \subseteq at[j].live
  BY <1>3 DEF Flow
<1>9. Flow(d, left, at)
  BY <1>3, <1>5, <1>6, <1>7, <1>8 DEF Flow
<1>10. QED
  BY <1>2, <1>9

-----------------------------------------------------------------------------
(* The variables of the open scopes *)

LEMMA BoundSame ==
    ASSUME NEW a, NEW b, NEW level, \A i \in 1 .. level, n \in Names : a[i][n] = b[i][n]
    PROVE  Bound(a, level) = Bound(b, level)
BY DEF Bound

LEMMA BoundIs ==
    \A sc, level : Bound(sc, level) \in SUBSET Decls
BY DEF Bound

LEMMA BoundPush ==
    ASSUME NEW a, NEW b, NEW l \in Nat, \A i \in 1 .. l, n \in Names : a[i][n] = b[i][n],
           \A n \in Names : b[l + 1][n] = None
    PROVE  Bound(b, l + 1) = Bound(a, l)
<1>1. \A d \in Decls : d # None
  BY DEF Decls, None
<1>2. \A i \in 1 .. l + 1 : i = l + 1 \/ i \in 1 .. l
  OBVIOUS
<1>3. 1 .. l \subseteq 1 .. l + 1
  OBVIOUS
<1>4. QED
  BY <1>1, <1>2, <1>3 DEF Bound

LEMMA BoundBind ==
    ASSUME NEW a, NEW b, NEW l \in Nat \ {0}, NEW n \in Names, NEW d \in Decls,
           \A i \in 1 .. l - 1, m \in Names : a[i][m] = b[i][m],
           \A m \in Names : b[l][m] = IF m = n THEN d ELSE a[l][m],
           a[l][n] = None
    PROVE  Bound(b, l) = Bound(a, l) \cup {d}
<1>1. \A e \in Decls : e # None
  BY DEF Decls, None
<1>2. \A i \in 1 .. l : i = l \/ i \in 1 .. l - 1
  OBVIOUS
<1>3. 1 .. l - 1 \subseteq 1 .. l /\ l \in 1 .. l
  OBVIOUS
<1>4. ASSUME NEW e \in Bound(b, l)
      PROVE  e \in Bound(a, l) \cup {d}
  <2>1. PICK i \in 1 .. l, m \in Names : b[i][m] = e /\ e \in Decls
    BY DEF Bound
  <2>2. CASE i = l /\ m = n
    BY <2>1, <2>2
  <2>3. CASE i = l /\ m # n
    <3>1. a[i][m] = e
      BY <2>1, <2>3
    <3>2. QED
      BY <2>1, <3>1 DEF Bound
  <2>4. CASE i \in 1 .. l - 1
    <3>1. a[i][m] = e
      BY <2>1, <2>4
    <3>2. QED
      BY <2>1, <3>1 DEF Bound
  <2>5. QED
    BY <1>2, <2>2, <2>3, <2>4
<1>5. ASSUME NEW e \in Bound(a, l)
      PROVE  e \in Bound(b, l)
  <2>1. PICK i \in 1 .. l, m \in Names : a[i][m] = e /\ e \in Decls
    BY DEF Bound
  <2>2. b[i][m] = e
    <3>1. CASE i = l
      <4>1. m # n
        BY <1>1, <2>1, <3>1
      <4>2. QED
        BY <2>1, <3>1, <4>1
    <3>2. CASE i \in 1 .. l - 1
      BY <2>1, <3>2
    <3>3. QED
      BY <1>2, <3>1, <3>2
  <2>3. QED
    BY <2>1, <2>2 DEF Bound
<1>6. d \in Bound(b, l)
  BY <1>3 DEF Bound
<1>7. QED
  BY <1>4, <1>5, <1>6

\* A declaration is bound once, so that leaving a scope unbinds what it declared.
LEMMA BoundPop ==
    ASSUME NEW a, NEW l \in Nat \ {0}, NEW vs,
           \A i \in 1 .. l, n \in Names : a[i][n] # None => a[i][n] = vs[n],
           \A i \in 1 .. l, j \in 1 .. l, n \in Names :
              a[i][n] # None /\ a[j][n] # None => i = j,
           \A n \in Names, m \in Names : vs[n] # None /\ vs[n] = vs[m] => n = m
    PROVE  Bound(a, l - 1) = Bound(a, l) \ Ends(a[l])
<1>1. \A e \in Decls : e # None
  BY DEF Decls, None
<1>2. \A i \in 1 .. l : i = l \/ i \in 1 .. l - 1
  OBVIOUS
<1>3. 1 .. l - 1 \subseteq 1 .. l /\ l \in 1 .. l /\ l \notin 1 .. l - 1
  OBVIOUS
<1>4. ASSUME NEW e \in Bound(a, l - 1)
      PROVE  e \in Bound(a, l) \ Ends(a[l])
  <2>1. PICK i \in 1 .. l - 1, m \in Names : a[i][m] = e /\ e \in Decls
    BY DEF Bound
  <2>2. e \in Bound(a, l)
    BY <1>3, <2>1 DEF Bound
  <2>3. ASSUME e \in Ends(a[l])
        PROVE  FALSE
    <3>1. PICK n \in Names : a[l][n] = e
      BY <2>3 DEF Ends
    <3>2. e = vs[m] /\ e = vs[n] /\ e # None
      BY <1>1, <1>3, <2>1, <3>1
    <3>3. n = m
      BY <3>2
    <3>4. i = l
      BY <1>3, <2>1, <3>1, <3>2, <3>3
    <3>5. QED
      BY <1>3, <3>4
  <2>4. QED
    BY <2>2, <2>3
<1>5. ASSUME NEW e \in Bound(a, l), e \notin Ends(a[l])
      PROVE  e \in Bound(a, l - 1)
  <2>1. PICK i \in 1 .. l, m \in Names : a[i][m] = e /\ e \in Decls
    BY DEF Bound
  <2>2. i # l
    BY <1>1, <1>5, <2>1 DEF Ends
  <2>3. QED
    BY <1>2, <2>1, <2>2 DEF Bound
<1>6. QED
  BY <1>4, <1>5

LEMMA LevelsNow ==
    ASSUME OpenOK, NEW lev, Levels(lev)
    PROVE  /\ open \in Seq(Block) /\ Len(open) \in Nat
           /\ LevelsOf(lev, open, Len(scopes))
           /\ lev[Len(open)] = Len(scopes)
           /\ Len(scopes) \in Nat \ {0}
           /\ \A k \in 0 .. Len(open) : lev[k] \in 1 .. Len(scopes)
           /\ Len(open) = 0 => Len(scopes) = 1
           /\ Len(open) > 0 => /\ Last(open) \in Block
                               /\ Last(open) = open[Len(open)]
                               /\ lev[Len(open) - 1] = Len(scopes) - Width(Last(open).kind)
                               /\ Len(scopes) - Width(Last(open).kind) \in Nat \ {0}
<1>1. open \in Seq(Block) /\ LevelsOf(lev, open, Len(scopes))
  BY DEF OpenOK, Levels
<1>2. lev[Len(open)] = Len(scopes)
  BY <1>1 DEF LevelsOf
<1>3. QED
  BY <1>1, <1>2, LevelsTop

LEMMA NameIsBound ==
    ASSUME CompilerOK, NEW lev, Scoped(lev), NEW n \in Names
    PROVE  /\ \A i \in DOMAIN scopes : scopes[i][n] # None => Innermost(n) = scopes[i][n]
           /\ Visible(n) => \E i \in DOMAIN scopes : scopes[i][n] # None
           /\ Visible(n) => Innermost(n) = variables[n]
<1>1. Len(scopes) \in Nat /\ DOMAIN scopes = 1 .. Len(scopes)
  BY LenProperties DEF CompilerOK
<1>2. PICK bound : bound = {i \in DOMAIN scopes : scopes[i][n] # None}
  OBVIOUS
<1>3. Innermost(n) = IF bound = {} THEN None
                     ELSE scopes[CHOOSE i \in bound : \A j \in bound : j <= i][n]
  BY <1>2 DEF Innermost
<1>4. ASSUME NEW k \in DOMAIN scopes, scopes[k][n] # None
      PROVE  Innermost(n) = scopes[k][n]
  <2>1. \A j \in bound : j = k
    BY <1>2, <1>4 DEF Scoped, Resolved
  <2>2. k \in bound /\ k <= k
    BY <1>1, <1>2, <1>4
  <2>3. \A j \in bound : j <= k
    BY <2>1, <2>2
  <2>4. (CHOOSE i \in bound : \A j \in bound : j <= i) \in bound
    BY <2>2, <2>3
  <2>5. (CHOOSE i \in bound : \A j \in bound : j <= i) = k
    BY <2>1, <2>4
  <2>6. QED
    BY <1>3, <2>2, <2>5
<1>5. Visible(n) => \E i \in DOMAIN scopes : scopes[i][n] # None
  BY <1>2, <1>3 DEF Visible
<1>6. Visible(n) => Innermost(n) = variables[n]
  BY <1>4, <1>5 DEF Scoped, Resolved
<1>7. QED
  BY <1>4, <1>5, <1>6

LEMMA ScopedFacts ==
    ASSUME CompilerOK, OpenOK, NEW lev, Levels(lev), Scoped(lev)
    PROVE  /\ Len(scopes) \in Nat \ {0} /\ DOMAIN scopes = 1 .. Len(scopes)
           /\ \A l \in 1 .. Len(scopes) :
                 Bound(scopes, l - 1) = Bound(scopes, l) \ Ends(scopes[l])
           /\ \A n \in Names : Visible(n) => variables[n] \in Bound(scopes, Len(scopes))
           /\ \A n \in Names : ~Visible(n) => \A i \in DOMAIN scopes : scopes[i][n] = None
           /\ Bound(scopes, Len(scopes)) \subseteq Allocas(function_locals)
           /\ Ends(Last(scopes)) \subseteq Allocas(Last(block_locals))
           /\ Bound(scopes, Len(scopes) - 1) \cap Allocas(Last(block_locals)) = {}
<1>1. Len(scopes) \in Nat /\ DOMAIN scopes = 1 .. Len(scopes)
  BY LenProperties DEF CompilerOK
<1>2. /\ Len(open) \in Nat /\ lev[Len(open)] = Len(scopes)
      /\ Len(scopes) \in Nat \ {0}
  BY LevelsNow
<1>3. /\ Last(block_locals) = block_locals[Len(open) + 1]
      /\ Last(scopes) = scopes[Len(scopes)]
  BY DEF Last, OpenOK
<1>4. /\ \A i \in DOMAIN scopes, n \in Names : scopes[i][n] # None => scopes[i][n] = variables[n]
      /\ \A i \in DOMAIN scopes, j \in DOMAIN scopes, n \in Names :
            scopes[i][n] # None /\ scopes[j][n] # None => i = j
      /\ \A n \in Names, m \in Names :
            variables[n] # None /\ variables[n] = variables[m] => n = m
      /\ \A n \in Names : variables[n] # None => n \in function_locals
  BY DEF Scoped, Resolved
<1>5. /\ \A n \in Names :
            scopes[lev[Len(open)]][n] # None => n \in block_locals[Len(open) + 1]
      /\ \A n \in Names, j \in DOMAIN scopes :
            n \in block_locals[Len(open) + 1] /\ scopes[j][n] # None => lev[Len(open)] <= j
  <2>1. Len(open) \in 0 .. Len(open) /\ lev[Len(open)] \in DOMAIN scopes
    BY <1>1, <1>2
  <2>2. QED
    BY <2>1 DEF Scoped, Released
<1>6. ASSUME NEW l \in 1 .. Len(scopes)
      PROVE  Bound(scopes, l - 1) = Bound(scopes, l) \ Ends(scopes[l])
  <2>1. l \in Nat \ {0} /\ 1 .. l \subseteq DOMAIN scopes
    BY <1>1
  <2>2. /\ \A i \in 1 .. l, n \in Names : scopes[i][n] # None => scopes[i][n] = variables[n]
        /\ \A i \in 1 .. l, j \in 1 .. l, n \in Names :
              scopes[i][n] # None /\ scopes[j][n] # None => i = j
    BY <1>4, <2>1
  <2>3. \A n \in Names, m \in Names :
           variables[n] # None /\ variables[n] = variables[m] => n = m
    BY <1>4
  <2>4. QED
    BY <2>1, <2>2, <2>3, BoundPop
<1>7. \A d \in Decls : d # None
  BY DEF Decls, None
<1>8. ASSUME NEW n \in Names, Visible(n)
      PROVE  variables[n] \in Bound(scopes, Len(scopes))
  <2>1. PICK i \in DOMAIN scopes : scopes[i][n] # None
    BY <1>8, NameIsBound
  <2>2. scopes[i][n] = variables[n] /\ variables[n] \in Decls
    BY <1>4, <1>8, <2>1, MadeOfNames
  <2>3. QED
    BY <1>1, <2>1, <2>2 DEF Bound
<1>9. \A n \in Names : ~Visible(n) => \A i \in DOMAIN scopes : scopes[i][n] = None
  BY NameIsBound DEF Visible
<1>10. ASSUME NEW d \in Bound(scopes, Len(scopes))
       PROVE  d \in Allocas(function_locals)
  <2>1. PICK i \in 1 .. Len(scopes), n \in Names : scopes[i][n] = d /\ d \in Decls
    BY DEF Bound
  <2>2. d = variables[n] /\ n \in function_locals
    BY <1>1, <1>4, <1>7, <2>1
  <2>3. QED
    BY <2>2 DEF Allocas
<1>11. ASSUME NEW d \in Ends(Last(scopes))
       PROVE  d \in Allocas(Last(block_locals))
  <2>1. PICK n \in Names : scopes[Len(scopes)][n] = d /\ d # None
    BY <1>3 DEF Ends
  <2>2. Len(scopes) \in DOMAIN scopes
    BY <1>1, <1>2
  <2>3. d = variables[n] /\ n \in Last(block_locals)
    BY <1>2, <1>3, <1>4, <1>5, <2>1, <2>2
  <2>4. QED
    BY <2>3 DEF Allocas
<1>12. ASSUME NEW d \in Bound(scopes, Len(scopes) - 1), d \in Allocas(Last(block_locals))
       PROVE  FALSE
  <2>1. PICK i \in 1 .. Len(scopes) - 1, n \in Names : scopes[i][n] = d /\ d \in Decls
    BY DEF Bound
  <2>2. PICK m \in Last(block_locals) : d = variables[m]
    BY <1>12 DEF Allocas
  <2>3. m \in Names
    BY <2>2, MadeOfNames, <1>2 DEF OpenOK
  <2>4. i \in DOMAIN scopes /\ scopes[i][n] # None
    BY <1>1, <1>7, <2>1
  <2>5. variables[n] = d /\ variables[n] # None
    BY <1>4, <2>1, <2>4
  <2>6. n = m
    BY <1>4, <2>2, <2>3, <2>5
  <2>7. lev[Len(open)] <= i
    BY <1>3, <1>5, <2>2, <2>4, <2>6
  <2>8. QED
    BY <1>2, <2>1, <2>7
<1>13. QED
  BY <1>1, <1>2, <1>6, <1>8, <1>9, <1>10, <1>11, <1>12

LEMMA CounterScope ==
    ASSUME OpenOK, CompilerOK, NEW lev, Levels(lev), Scoped(lev),
           Len(open) > 0, Last(open).kind = "for"
    PROVE  Ends(scopes[Len(scopes) - 1]) \subseteq Counters(code)
<1>1. Len(open) \in Nat /\ Len(open) \in 1 .. Len(open) /\ lev[Len(open)] = Len(scopes)
  BY LevelsNow
<1>2. open[Len(open)].kind = "for"
  BY DEF Last
<1>3. Len(scopes) - 1 \in DOMAIN scopes
  <2>1. Len(scopes) \in Nat /\ Len(scopes) - 2 \in Nat \ {0}
    BY LevelsNow DEF Width
  <2>2. QED
    BY <2>1, LenProperties DEF CompilerOK
<1>4. \A n \in Names : scopes[Len(scopes) - 1][n] # None
                          => scopes[Len(scopes) - 1][n] \in Counters(code)
  BY <1>1, <1>2, <1>3 DEF Scoped, CounterScopes
<1>5. QED
  BY <1>4 DEF Ends

-----------------------------------------------------------------------------
(* What a statement does to the scopes *)

\* The scopes a have no entry but those of b.
Within(a, b) ==
    \A i \in DOMAIN a, n \in Names :
        a[i][n] # None => i \in DOMAIN b /\ a[i][n] = b[i][n]

\* Or declare n in scope t, which has no declaration in b.
Binds(a, b, t, n, d) ==
    /\ \A i \in DOMAIN b : b[i][n] = None
    /\ \A i \in DOMAIN a, m \in Names :
          a[i][m] # None => \/ i = t /\ m = n /\ a[i][m] = d
                            \/ m # n /\ i \in DOMAIN b /\ a[i][m] = b[i][m]

LEMMA ResolvedWithin ==
    ASSUME NEW sc, NEW sc2, NEW vs, NEW dec, NEW locals, Resolved(sc, vs, dec, locals),
           Within(sc2, sc)
    PROVE  Resolved(sc2, vs, dec, locals)
BY DEF Resolved, Within

LEMMA ResolvedBinds ==
    ASSUME NEW sc, NEW sc2, NEW vs \in [Names -> Targets], NEW dec \in Nat, NEW locals,
           Resolved(sc, vs, dec, locals),
           NEW n \in Names, NEW t, Binds(sc2, sc, t, n, dec + 1)
    PROVE  Resolved(sc2, [vs EXCEPT ![n] = dec + 1], dec + 1, locals \cup {n})
<1>1. PICK d, ws : d = dec + 1 /\ ws = [vs EXCEPT ![n] = dec + 1]
  OBVIOUS
<1>2. ws[n] = d /\ \A x \in Names : x # n => ws[x] = vs[x]
  BY <1>1
<1>3. /\ \A i \in DOMAIN sc, x \in Names : sc[i][x] # None => sc[i][x] = vs[x]
      /\ \A i \in DOMAIN sc, j \in DOMAIN sc, x \in Names :
            sc[i][x] # None /\ sc[j][x] # None => i = j
      /\ \A x \in Names : vs[x] <= dec
      /\ \A x \in Names, y \in Names : vs[x] # None /\ vs[x] = vs[y] => x = y
      /\ \A x \in Names : vs[x] # None => x \in locals
  BY DEF Resolved
<1>4. \A i \in DOMAIN sc2, x \in Names :
         sc2[i][x] # None => \/ i = t /\ x = n /\ sc2[i][x] = d
                             \/ x # n /\ i \in DOMAIN sc /\ sc2[i][x] = sc[i][x]
  BY <1>1 DEF Binds
<1>5. \A i \in DOMAIN sc2, x \in Names : sc2[i][x] # None => sc2[i][x] = ws[x]
  BY <1>2, <1>3, <1>4
<1>6. \A i \in DOMAIN sc2, j \in DOMAIN sc2, x \in Names :
         sc2[i][x] # None /\ sc2[j][x] # None => i = j
  BY <1>3, <1>4
<1>7. \A x \in Names : vs[x] \in Nat /\ vs[x] # d /\ vs[x] <= d
  BY <1>1, <1>3 DEF Targets, Decls, None
<1>8. \A x \in Names : ws[x] <= d
  BY <1>1, <1>2, <1>7
<1>9. \A x \in Names, y \in Names : ws[x] # None /\ ws[x] = ws[y] => x = y
  BY <1>2, <1>3, <1>7
<1>10. \A x \in Names : ws[x] # None => x \in locals \cup {n}
  BY <1>2, <1>3
<1>11. Resolved(sc2, ws, d, locals \cup {n})
  BY <1>5, <1>6, <1>8, <1>9, <1>10 DEF Resolved
<1>12. QED
  BY <1>1, <1>11

LEMMA ReleasedWithin ==
    ASSUME NEW m \in Nat, NEW m2 \in Nat, m2 <= m, NEW sc, NEW sc2, Within(sc2, sc),
           NEW blocks, NEW blocks2, \A k \in 0 .. m2 : blocks2[k + 1] = blocks[k + 1],
           NEW lev, Released(m, sc, blocks, lev)
    PROVE  Released(m2, sc2, blocks2, lev)
<1>1. \A k \in 0 .. m2 : k \in 0 .. m
  OBVIOUS
<1>2. QED
  BY <1>1 DEF Released, Within

LEMMA ReleasedPush ==
    ASSUME NEW m \in Nat, NEW sc, NEW sc2, Within(sc2, sc),
           NEW blocks, NEW blocks2, \A k \in 0 .. m : blocks2[k + 1] = blocks[k + 1],
           blocks2[m + 2] = {},
           NEW lev, NEW up, \A k \in 0 .. m : up[k] = lev[k],
           \A x \in Names : sc2[up[m + 1]][x] = None,
           Released(m, sc, blocks, lev)
    PROVE  Released(m + 1, sc2, blocks2, up)
<1>1. ASSUME NEW k \in 0 .. m + 1, NEW j \in DOMAIN sc2, NEW x \in Names, sc2[j][x] # None
      PROVE  /\ j = up[k] => x \in blocks2[k + 1]
             /\ x \in blocks2[k + 1] => up[k] <= j
  <2>1. k = m + 1 \/ k \in 0 .. m
    OBVIOUS
  <2>2. CASE k = m + 1
    BY <1>1, <2>2
  <2>3. CASE k \in 0 .. m
    <3>1. j \in DOMAIN sc /\ sc[j][x] # None
      BY <1>1 DEF Within
    <3>2. /\ j = lev[k] => x \in blocks[k + 1]
          /\ x \in blocks[k + 1] => lev[k] <= j
      BY <2>3, <3>1 DEF Released
    <3>3. QED
      BY <2>3, <3>2
  <2>4. QED
    BY <2>1, <2>2, <2>3
<1>2. QED
  BY <1>1 DEF Released

LEMMA ReleasedBinds ==
    ASSUME NEW m \in Nat, NEW lev, \A k \in 0 .. m : lev[k] \in Nat,
           \A k \in 0 .. m : k # m => lev[k] < lev[m],
           NEW t \in Nat, lev[m] <= t, NEW n \in Names, NEW d,
           NEW sc, NEW sc2, Binds(sc2, sc, t, n, d),
           NEW blocks, NEW blocks2,
           \A k \in 0 .. m : blocks2[k + 1] = IF k = m THEN blocks[k + 1] \cup {n}
                                              ELSE blocks[k + 1],
           Released(m, sc, blocks, lev)
    PROVE  Released(m, sc2, blocks2, lev)
<1>1. ASSUME NEW k \in 0 .. m, NEW j \in DOMAIN sc2, NEW x \in Names, sc2[j][x] # None
      PROVE  /\ j = lev[k] => x \in blocks2[k + 1]
             /\ x \in blocks2[k + 1] => lev[k] <= j
  <2>1. CASE j = t /\ x = n
    <3>1. m \in 0 .. m
      OBVIOUS
    <3>2. lev[k] <= t /\ (t = lev[k] => k = m)
      BY <3>1
    <3>3. t = lev[k] => n \in blocks2[k + 1]
      BY <3>2
    <3>4. QED
      BY <2>1, <3>2, <3>3
  <2>2. CASE x # n /\ j \in DOMAIN sc /\ sc2[j][x] = sc[j][x]
    <3>1. /\ j = lev[k] => x \in blocks[k + 1]
          /\ x \in blocks[k + 1] => lev[k] <= j
      BY <1>1, <2>2 DEF Released
    <3>2. x \in blocks2[k + 1] <=> x \in blocks[k + 1]
      BY <2>2
    <3>3. QED
      BY <3>1, <3>2
  <2>3. QED
    BY <1>1, <2>1, <2>2 DEF Binds
<1>2. QED
  BY <1>1 DEF Released

LEMMA CounterScopesWithin ==
    ASSUME NEW m \in Nat, NEW m2 \in Nat, m2 <= m, NEW o, NEW o2,
           \A k \in 1 .. m2 : o2[k] = o[k], NEW sc, NEW sc2, Within(sc2, sc), NEW lev,
           NEW cs, NEW cs2, cs \subseteq cs2, CounterScopes(o, m, sc, lev, cs)
    PROVE  CounterScopes(o2, m2, sc2, lev, cs2)
<1>1. \A k \in 1 .. m2 : k \in 1 .. m
  OBVIOUS
<1>2. QED
  BY <1>1 DEF CounterScopes, Within

LEMMA CounterScopesPush ==
    ASSUME NEW m \in Nat, NEW o, NEW o2, \A k \in 1 .. m : o2[k] = o[k],
           NEW sc, NEW sc2, Within(sc2, sc), NEW lev, NEW up,
           \A k \in 0 .. m : up[k] = lev[k], NEW cs, NEW cs2, cs \subseteq cs2,
           o2[m + 1].kind = "for" =>
              \A x \in Names : sc2[up[m + 1] - 1][x] # None => sc2[up[m + 1] - 1][x] \in cs2,
           CounterScopes(o, m, sc, lev, cs)
    PROVE  CounterScopes(o2, m + 1, sc2, up, cs2)
<1>1. ASSUME NEW k \in 1 .. m + 1, NEW j \in DOMAIN sc2, NEW x \in Names,
             o2[k].kind = "for", j = up[k] - 1, sc2[j][x] # None
      PROVE  sc2[j][x] \in cs2
  <2>1. k = m + 1 \/ (k \in 1 .. m /\ k \in 0 .. m)
    OBVIOUS
  <2>2. CASE k = m + 1
    BY <1>1, <2>2
  <2>3. CASE k \in 1 .. m /\ k \in 0 .. m
    <3>1. j \in DOMAIN sc /\ sc[j][x] = sc2[j][x]
      BY <1>1 DEF Within
    <3>2. o[k].kind = "for" /\ j = lev[k] - 1
      BY <1>1, <2>3
    <3>3. QED
      BY <1>1, <2>3, <3>1, <3>2 DEF CounterScopes
  <2>4. QED
    BY <2>1, <2>2, <2>3
<1>2. QED
  BY <1>1 DEF CounterScopes

LEMMA CounterScopesBinds ==
    ASSUME NEW m \in Nat, NEW o, NEW lev, \A k \in 1 .. m : lev[k] \in Nat /\ lev[k] <= lev[m],
           NEW t \in Nat, lev[m] <= t, NEW n \in Names, NEW d,
           NEW sc, NEW sc2, Binds(sc2, sc, t, n, d),
           NEW cs, NEW cs2, cs \subseteq cs2, CounterScopes(o, m, sc, lev, cs)
    PROVE  CounterScopes(o, m, sc2, lev, cs2)
<1>1. ASSUME NEW k \in 1 .. m, NEW j \in DOMAIN sc2, NEW x \in Names,
             o[k].kind = "for", j = lev[k] - 1, sc2[j][x] # None
      PROVE  sc2[j][x] \in cs2
  <2>1. lev[k] \in Nat /\ lev[m] \in Nat /\ lev[k] <= lev[m]
    <3>1. m \in 1 .. m
      OBVIOUS
    <3>2. QED
      BY <3>1
  <2>2. j # t
    BY <1>1, <2>1
  <2>3. j \in DOMAIN sc /\ sc[j][x] = sc2[j][x]
    BY <1>1, <2>2 DEF Binds
  <2>4. QED
    BY <1>1, <2>3 DEF CounterScopes
<1>2. QED
  BY <1>1 DEF CounterScopes

-----------------------------------------------------------------------------
(* Each statement keeps the names right *)

LEMMA ScopedSame ==
    ASSUME NEW lev, Scoped(lev),
           UNCHANGED <<scopes, open, variables, block_locals, function_locals, declared>>,
           Counters(code) \subseteq Counters(code')
    PROVE  Scoped(lev)'
<1>1. CounterScopes(open, Len(open), scopes, lev, Counters(code'))
  BY DEF Scoped, CounterScopes
<1>2. QED
  BY <1>1 DEF Scoped

LEMMA FrontOfLocals ==
    ASSUME NEW blocks \in Seq(SUBSET Names), Len(blocks) > 0
    PROVE  /\ Front(blocks) \in Seq(SUBSET Names)
           /\ Len(Front(blocks)) = Len(blocks) - 1
           /\ \A i \in 1 .. Len(blocks) - 1 : Front(blocks)[i] = blocks[i]
<1>1. PICK S : S = SUBSET Names
  OBVIOUS
<1>2. blocks \in Seq(S)
  BY <1>1
<1>3. /\ Front(blocks) \in Seq(S)
      /\ Len(Front(blocks)) = Len(blocks) - 1
      /\ \A i \in 1 .. Len(blocks) - 1 : Front(blocks)[i] = blocks[i]
  BY <1>2, FrontIs
<1>4. QED
  BY <1>1, <1>3

LEMMA ScopedLess ==
    ASSUME NEW lev, Scoped(lev), NEW m \in Nat, Len(open) \in Nat, m <= Len(open),
           Len(open') = m, \A k \in 1 .. m : open'[k] = open[k],
           \A k \in 0 .. m : block_locals'[k + 1] = block_locals[k + 1],
           Within(scopes', scopes), UNCHANGED <<variables, function_locals, declared>>,
           Counters(code) \subseteq Counters(code')
    PROVE  Scoped(lev)'
<1>1. PICK p : p = Len(open) /\ p \in Nat /\ m <= p
  OBVIOUS
<1>2. /\ Resolved(scopes, variables, declared, function_locals)
      /\ Released(p, scopes, block_locals, lev)
      /\ CounterScopes(open, p, scopes, lev, Counters(code))
  BY <1>1 DEF Scoped
<1>3. Resolved(scopes', variables', declared', function_locals')
  BY <1>2, ResolvedWithin
<1>4. Released(m, scopes', block_locals', lev)
  BY <1>1, <1>2, ReleasedWithin
<1>5. CounterScopes(open', m, scopes', lev, Counters(code'))
  BY <1>1, <1>2, CounterScopesWithin
<1>6. QED
  BY <1>3, <1>4, <1>5 DEF Scoped

LEMMA ScopedClose ==
    ASSUME CompilerOK, OpenOK, NEW lev, Levels(lev), Scoped(lev), Len(open) > 0,
           open' = Front(open), block_locals' = Front(block_locals),
           scopes' = SubSeq(scopes, 1, Len(scopes) - Width(Last(open).kind)),
           UNCHANGED <<variables, function_locals, declared>>,
           Counters(code) \subseteq Counters(code')
    PROVE  Scoped(lev)'
<1>1. PICK w, m, n : /\ w \in Nat /\ m \in Nat /\ n \in Nat
                     /\ w = Len(scopes) - Width(Last(open).kind)
                     /\ m = Len(open) - 1 /\ n = Len(scopes) /\ w <= n
                     /\ Len(open) \in Nat
  <2>1. /\ Len(open) \in Nat /\ Len(scopes) \in Nat
        /\ Len(scopes) - Width(Last(open).kind) \in Nat
    BY LevelsNow
  <2>2. Width(Last(open).kind) \in Nat
    BY DEF Width
  <2>3. Len(open) - 1 \in Nat
    BY <2>1
  <2>4. Len(scopes) - Width(Last(open).kind) <= Len(scopes)
    BY <2>1, <2>2
  <2>5. QED
    BY <2>1, <2>3, <2>4
<1>2. /\ DOMAIN scopes' = 1 .. w /\ DOMAIN scopes = 1 .. n
      /\ \A i \in 1 .. w : scopes'[i] = scopes[i]
  BY <1>1, CutIs, LenProperties DEF CompilerOK
<1>3. Within(scopes', scopes)
  BY <1>1, <1>2 DEF Within
<1>4. Len(open') = m /\ \A k \in 1 .. m : open'[k] = open[k]
  BY <1>1, FrontIs, LevelsNow
<1>5. \A k \in 0 .. m : block_locals'[k + 1] = block_locals[k + 1]
  <2>1. Len(block_locals) = m + 2 /\ block_locals \in Seq(SUBSET Names)
    BY <1>1 DEF CompilerOK, OpenOK
  <2>2. \A i \in 1 .. m + 1 : block_locals'[i] = block_locals[i]
    <3>1. m + 1 = Len(block_locals) - 1 /\ Len(block_locals) > 0
      BY <1>1, <2>1
    <3>2. QED
      BY <2>1, <3>1, FrontOfLocals
  <2>3. \A k \in 0 .. m : k + 1 \in 1 .. m + 1
    BY <1>1
  <2>4. QED
    BY <2>2, <2>3
<1>6. m \in Nat /\ Len(open) \in Nat /\ m <= Len(open)
  BY <1>1
<1>7. QED
  BY <1>3, <1>4, <1>5, <1>6, ScopedLess

LEMMA ScopedOpen ==
    ASSUME CompilerOK, OpenOK, NEW lev, Levels(lev), Scoped(lev),
           NEW up, \A k \in 0 .. Len(open) : up[k] = lev[k],
           up[Len(open) + 1] = Len(scopes) + 1,
           NEW b \in Block, b.kind # "for", open' = Append(open, b),
           scopes' = Append(scopes, Empty), block_locals' = Append(block_locals, {}),
           UNCHANGED <<variables, function_locals, declared>>,
           Counters(code) \subseteq Counters(code')
    PROVE  Scoped(up)'
<1>1. PICK m, n : m \in Nat /\ n \in Nat /\ m = Len(open) /\ n = Len(scopes)
  BY LevelsNow
<1>2. Empty \in Scope /\ \A x \in Names : Empty[x] = None
  BY DEF Empty, Scope, Targets
<1>3. /\ DOMAIN scopes' = 1 .. n + 1 /\ DOMAIN scopes = 1 .. n
      /\ \A i \in 1 .. n : scopes'[i] = scopes[i]
      /\ scopes'[n + 1] = Empty
  BY <1>1, <1>2, PushIs DEF CompilerOK
<1>4. Within(scopes', scopes)
  <2>1. \A i \in 1 .. n + 1 : i = n + 1 \/ i \in 1 .. n
    BY <1>1
  <2>2. QED
    BY <1>2, <1>3, <2>1 DEF Within
<1>5. Len(open') = m + 1 /\ open'[m + 1] = b /\ \A k \in 1 .. m : open'[k] = open[k]
  BY <1>1, PushIs, LevelsNow
<1>6. /\ \A k \in 0 .. m : block_locals'[k + 1] = block_locals[k + 1]
      /\ block_locals'[m + 2] = {}
  <2>1. block_locals \in Seq(SUBSET Names) /\ Len(block_locals) = m + 1
        /\ {} \in SUBSET Names
    BY <1>1 DEF CompilerOK, OpenOK
  <2>2. /\ \A i \in 1 .. m + 1 : block_locals'[i] = block_locals[i]
        /\ block_locals'[m + 1 + 1] = {}
    BY <2>1, PushIs
  <2>3. \A k \in 0 .. m : k + 1 \in 1 .. m + 1
    BY <1>1
  <2>4. m + 1 + 1 = m + 2
    BY <1>1
  <2>5. QED
    BY <2>2, <2>3, <2>4
<1>7. \A x \in Names : scopes'[up[m + 1]][x] = None
  BY <1>1, <1>2, <1>3
<1>8. Resolved(scopes', variables', declared', function_locals')
  BY <1>4, ResolvedWithin DEF Scoped
<1>9. Released(m + 1, scopes', block_locals', up)
  <2>1. Released(m, scopes, block_locals, lev) /\ \A k \in 0 .. m : up[k] = lev[k]
    BY <1>1 DEF Scoped
  <2>2. QED
    BY <1>1, <1>4, <1>6, <1>7, <2>1, ReleasedPush
<1>10. CounterScopes(open', m + 1, scopes', up, Counters(code'))
  <2>1. /\ CounterScopes(open, m, scopes, lev, Counters(code))
        /\ \A k \in 0 .. m : up[k] = lev[k]
    BY <1>1 DEF Scoped
  <2>2. QED
    BY <1>1, <1>4, <1>5, <2>1, CounterScopesPush
<1>11. QED
  BY <1>5, <1>8, <1>9, <1>10 DEF Scoped

LEMMA ScopedElse ==
    ASSUME CompilerOK, OpenOK, NEW lev, Levels(lev), Scoped(lev), Len(open) > 0,
           Last(open).kind = "if",
           NEW b \in Block, b.kind = "else", open' = Append(Front(open), b),
           scopes' = ElseBind(scopes), block_locals' = Append(Front(block_locals), {}),
           UNCHANGED <<variables, function_locals, declared>>,
           Counters(code) \subseteq Counters(code')
    PROVE  Scoped(lev)'
<1>1. PICK m, n : /\ m \in Nat /\ n \in Nat \ {0}
                  /\ m = Len(open) - 1 /\ n = Len(scopes) /\ Len(open) = m + 1
                  /\ lev[m + 1] = n
  BY LevelsNow
<1>2. /\ DOMAIN scopes' = 1 .. n /\ DOMAIN scopes = 1 .. n
      /\ \A i \in 1 .. n - 1 : scopes'[i] = scopes[i]
      /\ \A x \in Names : scopes'[n][x] = None
  BY <1>1, ElseScopes DEF CompilerOK
<1>3. Within(scopes', scopes)
  <2>1. \A i \in 1 .. n : i = n \/ i \in 1 .. n - 1
    BY <1>1
  <2>2. QED
    BY <1>2, <2>1 DEF Within
<1>4. Len(open') = m + 1 /\ open'[m + 1] = b /\ \A k \in 1 .. m : open'[k] = open[k]
  <2>1. /\ Front(open) \in Seq(Block) /\ Len(Front(open)) = m
        /\ \A k \in 1 .. m : Front(open)[k] = open[k]
    BY <1>1, FrontIs, LevelsNow
  <2>2. QED
    BY <2>1, PushIs
<1>5. /\ \A k \in 0 .. m : block_locals'[k + 1] = block_locals[k + 1]
      /\ block_locals'[m + 2] = {}
  <2>1. block_locals \in Seq(SUBSET Names) /\ Len(block_locals) = m + 2
        /\ {} \in SUBSET Names
    BY <1>1 DEF CompilerOK, OpenOK
  <2>2. /\ Front(block_locals) \in Seq(SUBSET Names) /\ Len(Front(block_locals)) = m + 1
        /\ \A i \in 1 .. m + 1 : Front(block_locals)[i] = block_locals[i]
    <3>1. m + 1 = Len(block_locals) - 1 /\ Len(block_locals) > 0
      BY <1>1, <2>1
    <3>2. QED
      BY <2>1, <3>1, FrontOfLocals
  <2>3. /\ \A i \in 1 .. m + 1 : block_locals'[i] = block_locals[i]
        /\ block_locals'[m + 1 + 1] = {}
    BY <2>1, <2>2, PushIs
  <2>4. \A k \in 0 .. m : k + 1 \in 1 .. m + 1
    BY <1>1
  <2>5. m + 1 + 1 = m + 2
    BY <1>1
  <2>6. QED
    BY <2>3, <2>4, <2>5
<1>6. Resolved(scopes', variables', declared', function_locals')
  BY <1>3, ResolvedWithin DEF Scoped
<1>7. Released(m + 1, scopes', block_locals', lev)
  <2>1. Released(m + 1, scopes, block_locals, lev) /\ m + 1 \in Nat /\ m <= m + 1
    BY <1>1 DEF Scoped
  <2>2. Released(m, scopes, block_locals, lev)
    <3>1. Within(scopes, scopes)
      BY DEF Within
    <3>2. QED
      BY <1>1, <2>1, <3>1, ReleasedWithin
  <2>3. QED
    BY <1>1, <1>2, <1>3, <1>5, <2>2, ReleasedPush
<1>8. CounterScopes(open', m + 1, scopes', lev, Counters(code'))
  <2>1. CounterScopes(open, m + 1, scopes, lev, Counters(code)) /\ m + 1 \in Nat /\ m <= m + 1
    BY <1>1 DEF Scoped
  <2>2. CounterScopes(open, m, scopes, lev, Counters(code))
    <3>1. Within(scopes, scopes)
      BY DEF Within
    <3>2. QED
      BY <1>1, <2>1, <3>1, CounterScopesWithin
  <2>3. QED
    BY <1>1, <1>3, <1>4, <2>2, CounterScopesPush
<1>9. QED
  BY <1>4, <1>6, <1>7, <1>8 DEF Scoped

LEMMA LevelsElse ==
    ASSUME NEW o \in Seq(Block), NEW lev, NEW n, LevelsOf(lev, o, n), Len(o) > 0,
           Last(o).kind = "if", NEW b \in Block, b.kind = "else"
    PROVE  LevelsOf(lev, Append(Front(o), b), n)
<1>1. PICK m, u : m \in Nat /\ m = Len(o) - 1 /\ Len(o) = m + 1 /\ u = Append(Front(o), b)
  <2>1. Len(o) \in Nat
    BY LenProperties
  <2>2. Len(o) - 1 \in Nat /\ Len(o) = Len(o) - 1 + 1
    BY <2>1
  <2>3. QED
    BY <2>2
<1>2. /\ Front(o) \in Seq(Block) /\ Len(Front(o)) = m
      /\ \A k \in 1 .. m : Front(o)[k] = o[k]
      /\ Last(o) = o[m + 1]
  BY <1>1, FrontIs
<1>3. Len(u) = m + 1 /\ u[m + 1] = b /\ \A k \in 1 .. m : u[k] = o[k]
  BY <1>1, <1>2, PushIs
<1>4. /\ lev \in [Nat -> Nat]
      /\ lev[0] = 1
      /\ \A k \in 1 .. m + 1 : lev[k] = lev[k - 1] + Width(o[k].kind)
      /\ \A k \in 0 .. m + 1, j \in 0 .. m + 1 : j < k => lev[j] < lev[k]
      /\ lev[m + 1] = n
  BY <1>1 DEF LevelsOf
<1>5. \A k \in 1 .. m + 1 : Width(u[k].kind) = Width(o[k].kind)
  <2>1. \A k \in 1 .. m + 1 : k = m + 1 \/ k \in 1 .. m
    BY <1>1
  <2>2. QED
    BY <1>2, <1>3, <2>1 DEF Width
<1>6. LevelsOf(lev, u, n)
  BY <1>3, <1>4, <1>5 DEF LevelsOf
<1>7. QED
  BY <1>1, <1>6

LEMMA BindsName ==
    ASSUME CompilerOK, OpenOK, NEW lev, Levels(lev), Scoped(lev), NEW n \in Names, ~Visible(n),
           NEW t, NEW d, NEW a,
           \A i \in DOMAIN a, x \in Names :
              a[i][x] # None => \/ i = t /\ x = n /\ a[i][x] = d
                                \/ i \in DOMAIN scopes /\ a[i][x] = scopes[i][x]
    PROVE  Binds(a, scopes, t, n, d)
<1>1. \A i \in DOMAIN scopes : scopes[i][n] = None
  BY ScopedFacts
<1>2. QED
  BY <1>1 DEF Binds

LEMMA ScopedDecl ==
    ASSUME TypeInv, ~Shadowing, NEW lev, Levels(lev), Scoped(lev), NEW n \in Names, Decl(n)
    PROVE  Scoped(lev)' /\ Levels(lev)'
<1>1. PICK d \in Decls :
         /\ d = declared + 1
         /\ declared' = d
         /\ variables' = [variables EXCEPT ![n] = d]
         /\ function_locals' = function_locals \cup {n}
         /\ block_locals' = WithLocal(n)
         /\ code' = Append(code, Declare(d))
         /\ UNCHANGED open
         /\ ~Visible(n)
         /\ Len(scopes') = Len(scopes)
         /\ DOMAIN scopes' = 1 .. Len(scopes) /\ DOMAIN scopes = 1 .. Len(scopes)
         /\ \A i \in 1 .. Len(scopes), m \in Names :
               scopes'[i][m] = IF i = Len(scopes) /\ m = n THEN d ELSE scopes[i][m]
  BY DeclFacts
<1>2. CompilerOK /\ OpenOK
  BY DEF TypeInv
<1>3. PICK m, t : m \in Nat /\ t \in Nat /\ m = Len(open) /\ t = Len(scopes) /\ lev[m] = t
  BY <1>2, LevelsNow
<1>4. Binds(scopes', scopes, t, n, d)
  <2>1. \A i \in DOMAIN scopes', x \in Names :
           scopes'[i][x] # None => \/ i = t /\ x = n /\ scopes'[i][x] = d
                                   \/ i \in DOMAIN scopes /\ scopes'[i][x] = scopes[i][x]
    BY <1>1, <1>3
  <2>2. ~Visible(n)
    BY <1>1
  <2>3. QED
    BY <1>2, <2>1, <2>2, BindsName
<1>5. Counters(code) \subseteq Counters(code')
  BY <1>1, InstrMade, CountersKept DEF TypeInv, Jumps
<1>6. /\ \A k \in 0 .. m : lev[k] \in Nat
      /\ \A k \in 0 .. m : k # m => lev[k] < lev[m]
  <2>1. /\ lev \in [Nat -> Nat]
        /\ \A k \in 0 .. m, j \in 0 .. m : j < k => lev[j] < lev[k]
    BY <1>2, <1>3, LevelsNow DEF LevelsOf
  <2>2. \A k \in 0 .. m : k \in Nat /\ m \in 0 .. m /\ (k # m => k < m)
    BY <1>3
  <2>3. QED
    BY <2>1, <2>2
<1>7. \A k \in 0 .. m : block_locals'[k + 1] = IF k = m THEN block_locals[k + 1] \cup {n}
                                                ELSE block_locals[k + 1]
  <2>1. Len(block_locals) = m + 1
    BY <1>2, <1>3 DEF OpenOK
  <2>2. \A k \in 1 .. m + 1 : block_locals'[k] = IF k = m + 1 THEN block_locals[k] \cup {n}
                                                 ELSE block_locals[k]
    BY <1>1, <1>2, <2>1, WithLocalIs
  <2>3. \A k \in 0 .. m : k + 1 \in 1 .. m + 1 /\ (k + 1 = m + 1 <=> k = m)
    BY <1>3
  <2>4. QED
    BY <2>2, <2>3
<1>8. /\ Resolved(scopes, variables, declared, function_locals)
      /\ Released(m, scopes, block_locals, lev)
      /\ CounterScopes(open, m, scopes, lev, Counters(code))
  BY <1>3 DEF Scoped
<1>9. Resolved(scopes', variables', declared', function_locals')
  <2>1. declared \in Nat /\ variables \in [Names -> Targets]
    BY <1>2, NamesAssumption DEF CompilerOK
  <2>2. Resolved(scopes', [variables EXCEPT ![n] = declared + 1], declared + 1,
                 function_locals \cup {n})
    BY <1>1, <1>4, <1>8, <2>1, ResolvedBinds
  <2>3. QED
    BY <1>1, <2>2
<1>10. Released(m, scopes', block_locals', lev)
  <2>1. lev[m] <= t
    BY <1>3
  <2>2. QED
    BY <1>3, <1>4, <1>6, <1>7, <1>8, <2>1, ReleasedBinds
<1>11. CounterScopes(open, m, scopes', lev, Counters(code'))
  <2>1. lev[m] <= t /\ \A k \in 1 .. m : lev[k] \in Nat /\ lev[k] <= lev[m]
    BY <1>3, <1>6
  <2>2. QED
    BY <1>3, <1>4, <1>5, <1>8, <2>1, CounterScopesBinds
<1>12. Scoped(lev)'
  BY <1>1, <1>3, <1>9, <1>10, <1>11 DEF Scoped
<1>13. Levels(lev)'
  BY <1>1 DEF Levels
<1>14. QED
  BY <1>12, <1>13

LEMMA ScopedFor ==
    ASSUME TypeInv, ~Shadowing, NEW lev, Levels(lev), Scoped(lev), NEW n \in Ints, For(n)
    PROVE  \E up : /\ Scoped(up)' /\ Levels(up)'
                   /\ \A k \in 0 .. Len(open) : up[k] = lev[k]
                   /\ up[Len(open) + 1] = Len(scopes) + 2
<1>1. PICK d \in Decls, b \in Block, h \in Nat :
         /\ d = declared + 1 /\ h = Len(code)
         /\ b.kind = "for" /\ b.head = h + 2
         /\ open' = Append(open, b)
         /\ scopes' = ForBind(scopes, n, d)
         /\ declared' = d
         /\ variables' = [variables EXCEPT ![n] = d]
         /\ function_locals' = function_locals \cup {n}
         /\ block_locals' = Append(WithLocal(n), {})
         /\ code' = Append(Append(code, DeclareCounter(d)), Branch)
         /\ ~Visible(n)
  BY ForFacts
<1>2. /\ CompilerOK /\ OpenOK /\ n \in Names /\ code \in Seq(Instr)
      /\ DeclareCounter(d) \in Instr /\ Branch \in Instr
  BY InstrMade DEF TypeInv, Names, Jumps
<1>3. PICK m, t : m \in Nat /\ t \in Nat /\ m = Len(open) /\ t = Len(scopes) /\ lev[m] = t
  BY <1>2, LevelsNow
<1>4. PICK up : /\ LevelsOf(up, open', t + 2)
                /\ \A k \in 0 .. m : up[k] = lev[k]
                /\ up[m + 1] = t + 2
  <2>1. \E up : /\ LevelsOf(up, Append(open, b), Len(scopes) + Width(b.kind))
                /\ \A k \in 0 .. Len(open) : up[k] = lev[k]
                /\ up[Len(open) + 1] = Len(scopes) + Width(b.kind)
    BY <1>2, LevelsNow, LevelsPush
  <2>2. Width(b.kind) = 2
    BY <1>1 DEF Width
  <2>3. QED
    BY <1>1, <1>3, <2>1, <2>2
<1>5. PICK sc : sc = scopes'
  OBVIOUS
<1>6. /\ DOMAIN sc = 1 .. t + 2 /\ DOMAIN scopes = 1 .. t /\ Len(sc) = t + 2
      /\ \A i \in 1 .. t : sc[i] = scopes[i]
      /\ \A x \in Names : /\ sc[t + 1][x] = IF x = n THEN d ELSE None
                          /\ sc[t + 2][x] = None
  <2>1. PICK s \in Seq(Scope) : s = scopes
    BY <1>2 DEF CompilerOK
  <2>2. /\ Len(ForBind(s, n, d)) = Len(s) + 2
        /\ DOMAIN ForBind(s, n, d) = 1 .. Len(s) + 2
        /\ DOMAIN s = 1 .. Len(s)
    BY <1>2, ForScopes
  <2>3. /\ \A i \in 1 .. Len(s) : ForBind(s, n, d)[i] = s[i]
        /\ \A x \in Names : /\ ForBind(s, n, d)[Len(s) + 1][x] = IF x = n THEN d ELSE None
                            /\ ForBind(s, n, d)[Len(s) + 2][x] = None
    BY <1>2, ForScopes
  <2>4. sc = ForBind(s, n, d) /\ t = Len(s)
    BY <1>1, <1>3, <1>5, <2>1
  <2>5. QED
    BY <2>1, <2>2, <2>3, <2>4
<1>7. Binds(sc, scopes, t + 1, n, d)
  <2>1. ASSUME NEW i \in DOMAIN sc, NEW x \in Names, sc[i][x] # None
        PROVE  \/ i = t + 1 /\ x = n /\ sc[i][x] = d
               \/ i \in DOMAIN scopes /\ sc[i][x] = scopes[i][x]
    <3>1. i = t + 2 \/ i = t + 1 \/ i \in 1 .. t
      BY <1>3, <1>6
    <3>2. QED
      BY <1>6, <2>1, <3>1
  <2>2. ~Visible(n)
    BY <1>1
  <2>3. QED
    BY <1>2, <2>1, <2>2, BindsName
<1>8. /\ Counters(code) \subseteq Counters(code') /\ d \in Counters(code')
  <2>1. PICK c \in Seq(Instr) : c = Append(code, DeclareCounter(d))
    BY <1>2, Appended
  <2>2. Counters(code) \subseteq Counters(c) /\ d \in Counters(c)
    BY <1>2, <2>1, CountersKept
  <2>3. Counters(c) \subseteq Counters(code')
    BY <1>1, <1>2, <2>1, CountersKept
  <2>4. QED
    BY <2>2, <2>3
<1>9. /\ \A k \in 0 .. m : lev[k] \in Nat
      /\ \A k \in 0 .. m : k # m => lev[k] < lev[m]
  <2>1. /\ lev \in [Nat -> Nat]
        /\ \A k \in 0 .. m, j \in 0 .. m : j < k => lev[j] < lev[k]
    BY <1>2, <1>3, LevelsNow DEF LevelsOf
  <2>2. \A k \in 0 .. m : k \in Nat /\ m \in 0 .. m /\ (k # m => k < m)
    BY <1>3
  <2>3. QED
    BY <2>1, <2>2
<1>10. PICK with : with = WithLocal(n)
  OBVIOUS
<1>11. /\ \A k \in 0 .. m : with[k + 1] = IF k = m THEN block_locals[k + 1] \cup {n}
                                          ELSE block_locals[k + 1]
       /\ \A k \in 0 .. m : block_locals'[k + 1] = with[k + 1]
       /\ block_locals'[m + 2] = {}
  <2>1. Len(block_locals) = m + 1 /\ {} \in SUBSET Names
    BY <1>2, <1>3 DEF OpenOK
  <2>2. /\ with \in Seq(SUBSET Names) /\ Len(with) = m + 1
        /\ \A k \in 1 .. m + 1 : with[k] = IF k = m + 1 THEN block_locals[k] \cup {n}
                                           ELSE block_locals[k]
    BY <1>2, <1>10, <2>1, WithLocalIs
  <2>3. /\ \A i \in 1 .. m + 1 : block_locals'[i] = with[i]
        /\ block_locals'[m + 1 + 1] = {}
    BY <1>1, <1>10, <2>1, <2>2, PushIs
  <2>4. \A k \in 0 .. m : k + 1 \in 1 .. m + 1 /\ (k + 1 = m + 1 <=> k = m)
    BY <1>3
  <2>5. m + 1 + 1 = m + 2
    BY <1>3
  <2>6. QED
    BY <2>2, <2>3, <2>4, <2>5
<1>12. Len(open') = m + 1 /\ open'[m + 1] = b /\ \A k \in 1 .. m : open'[k] = open[k]
  BY <1>1, <1>2, <1>3, PushIs, LevelsNow
<1>13. /\ Resolved(scopes, variables, declared, function_locals)
       /\ Released(m, scopes, block_locals, lev)
       /\ CounterScopes(open, m, scopes, lev, Counters(code))
  BY <1>3 DEF Scoped
<1>14. Resolved(sc, variables', declared', function_locals')
  <2>1. declared \in Nat /\ variables \in [Names -> Targets]
    BY <1>2, NamesAssumption DEF CompilerOK
  <2>2. Resolved(sc, [variables EXCEPT ![n] = declared + 1], declared + 1,
                 function_locals \cup {n})
    BY <1>1, <1>2, <1>7, <1>13, <2>1, ResolvedBinds
  <2>3. QED
    BY <1>1, <2>2
<1>15. Within(sc, sc)
  BY DEF Within
<1>16. lev[m] <= t + 1 /\ t + 1 \in Nat /\ \A k \in 1 .. m : lev[k] \in Nat /\ lev[k] <= lev[m]
  BY <1>3, <1>9
<1>17. Released(m + 1, sc, block_locals', up)
  <2>1. Released(m, sc, with, lev)
    <3>1. PICK u : u = t + 1 /\ u \in Nat /\ lev[m] <= u
      BY <1>16
    <3>2. Binds(sc, scopes, u, n, d)
      BY <1>7, <3>1
    <3>3. \A k \in 0 .. m : with[k + 1] = IF k = m THEN block_locals[k + 1] \cup {n}
                                           ELSE block_locals[k + 1]
      BY <1>11
    <3>4. m \in Nat /\ n \in Names
      BY <1>2, <1>3
    <3>5. Released(m, scopes, block_locals, lev)
      BY <1>13
    <3>6. u \in Nat /\ lev[m] <= u
      BY <3>1
    <3>7. QED
      BY <1>9, <3>2, <3>3, <3>4, <3>5, <3>6, ReleasedBinds
  <2>2. \A x \in Names : sc[up[m + 1]][x] = None
    BY <1>4, <1>6
  <2>3. QED
    BY <1>3, <1>4, <1>11, <1>15, <2>1, <2>2, ReleasedPush
<1>18. CounterScopes(open', m + 1, sc, up, Counters(code'))
  <2>1. CounterScopes(open, m, sc, lev, Counters(code))
    BY <1>2, <1>3, <1>7, <1>13, <1>16, CounterScopesBinds
  <2>2. \A x \in Names : sc[up[m + 1] - 1][x] # None => sc[up[m + 1] - 1][x] \in Counters(code')
    <3>1. up[m + 1] - 1 = t + 1
      BY <1>3, <1>4
    <3>2. QED
      BY <1>6, <1>8, <3>1
  <2>3. QED
    BY <1>3, <1>4, <1>8, <1>12, <1>15, <2>1, <2>2, CounterScopesPush
<1>19. Scoped(up)'
  BY <1>5, <1>12, <1>14, <1>17, <1>18 DEF Scoped
<1>20. Levels(up)'
  BY <1>4, <1>5, <1>6 DEF Levels
<1>21. QED
  BY <1>3, <1>4, <1>19, <1>20

-----------------------------------------------------------------------------
(* Each statement keeps the states right *)

LEMMA FlowPlain ==
    ASSUME NEW c, NEW n \in Nat, n = Len(c),
           NEW heads, NEW at, Jumps(c, heads), Flow(c, heads, at),
           NEW i \in Instr, i.op \notin JumpOps, NEW s \in States,
           at[n + 1].keyed \subseteq at[n + 1].live,
           Effect(i, at[n + 1], s, Counters(Append(c, i)))
    PROVE  \E up : Flow(Append(c, i), heads, up) /\ Continues(up, at, n, s)
<1>1. PICK none : none = {}
  OBVIOUS
<1>2. none \subseteq {n + 1} /\ heads \cup none = heads
  BY <1>1
<1>3. \E up : Flow(Append(c, i), heads \cup none, up) /\ Continues(up, at, n, s)
  BY <1>2, FlowAppend
<1>4. QED
  BY <1>2, <1>3

LEMMA WaitingKept ==
    ASSUME NEW o \in Seq(Block), NEW n, NEW lev, LevelsOf(lev, o, n),
           NEW sc, NEW sc2, \A i \in 1 .. n - 1, x \in Names : sc2[i][x] = sc[i][x],
           NEW m \in Nat, Heads(o) \subseteq 1 .. m,
           NEW at, NEW up, \A j \in 1 .. m : up[j] = at[j], Waiting(o, sc, lev, at)
    PROVE  Waiting(o, sc2, lev, up)
<1>1. SUFFICES ASSUME NEW k \in DOMAIN o, o[k].kind # "block"
               PROVE  up[o[k].head] = Both(Bound(sc2, lev[k] - 1))
  BY DEF Waiting
<1>2. at[o[k].head] = Both(Bound(sc, lev[k] - 1))
  BY <1>1 DEF Waiting
<1>3. o[k].head \in 1 .. m
  BY <1>1 DEF Heads
<1>4. lev[k] \in 1 .. n /\ n \in Nat
  BY LevelsTop, LenProperties
<1>5. PICK l : l = lev[k] - 1 /\ 1 .. l \subseteq 1 .. n - 1
  BY <1>4
<1>6. Bound(sc, l) = Bound(sc2, l)
  BY <1>5, BoundSame
<1>7. QED
  BY <1>2, <1>3, <1>5, <1>6

LEMMA WaitingPush ==
    ASSUME NEW o \in Seq(Block), NEW b \in Block, NEW sc, NEW lev, NEW at, Waiting(o, sc, lev, at),
           NEW hi, \A k \in 0 .. Len(o) : hi[k] = lev[k],
           b.kind # "block" => at[b.head] = Both(Bound(sc, hi[Len(o) + 1] - 1))
    PROVE  Waiting(Append(o, b), sc, hi, at)
<1>1. PICK m, u : m \in Nat /\ m = Len(o) /\ u = Append(o, b)
  BY LenProperties
<1>2. /\ DOMAIN u = 1 .. m + 1 /\ DOMAIN o = 1 .. m
      /\ u[m + 1] = b /\ \A k \in 1 .. m : u[k] = o[k]
  BY <1>1, PushIs
<1>3. SUFFICES ASSUME NEW k \in 1 .. m + 1, u[k].kind # "block"
               PROVE  at[u[k].head] = Both(Bound(sc, hi[k] - 1))
  BY <1>1, <1>2 DEF Waiting
<1>4. k = m + 1 \/ (k \in 1 .. m /\ k \in 0 .. m)
  BY <1>1
<1>5. CASE k = m + 1
  BY <1>1, <1>2, <1>3, <1>5
<1>6. CASE k \in 1 .. m /\ k \in 0 .. m
  <2>1. at[o[k].head] = Both(Bound(sc, lev[k] - 1))
    BY <1>2, <1>3, <1>6 DEF Waiting
  <2>2. hi[k] = lev[k] /\ u[k] = o[k]
    BY <1>1, <1>2, <1>6
  <2>3. QED
    BY <2>1, <2>2
<1>7. QED
  BY <1>4, <1>5, <1>6

LEMMA WaitingPop ==
    ASSUME NEW o \in Seq(Block), Len(o) > 0, NEW sc, NEW lev, NEW at, Waiting(o, sc, lev, at)
    PROVE  /\ Waiting(Front(o), sc, lev, at)
           /\ Last(o).kind # "block" =>
                 at[Last(o).head] = Both(Bound(sc, lev[Len(o)] - 1))
<1>1. PICK m, u : m \in Nat /\ m = Len(o) /\ m > 0 /\ u = Front(o)
  BY LenProperties
<1>2. /\ DOMAIN u = 1 .. m - 1 /\ DOMAIN o = 1 .. m
      /\ \A k \in 1 .. m - 1 : u[k] = o[k]
      /\ Last(o) = o[m] /\ m \in 1 .. m
  BY <1>1, FrontIs
<1>3. Waiting(u, sc, lev, at)
  BY <1>1, <1>2 DEF Waiting
<1>4. QED
  BY <1>1, <1>2, <1>3 DEF Waiting

LEMMA SoundFacts ==
    ASSUME TypeInv, NEW lev, NEW at, Sound(lev, at), status = "compiling"
    PROVE  /\ CompilerOK /\ OpenOK /\ Levels(lev) /\ Scoped(lev)
           /\ code \in Seq(Instr) /\ Len(code) \in Nat
           /\ Jumps(code, Heads(open)) /\ Heads(open) \subseteq 1 .. Len(code)
           /\ Flow(code, Heads(open), at)
           /\ at[Len(code) + 1] = Both(Bound(scopes, Len(scopes)))
           /\ Waiting(open, scopes, lev, at)
<1>1. /\ CompilerOK /\ OpenOK /\ Levels(lev) /\ Scoped(lev)
      /\ Jumps(code, Heads(open)) /\ Flow(code, Heads(open), at)
  BY DEF TypeInv, Sound
<1>2. code \in Seq(Instr) /\ Len(code) \in Nat /\ DOMAIN code = 1 .. Len(code)
  BY <1>1, LenProperties DEF Jumps
<1>3. Heads(open) \subseteq 1 .. Len(code)
  BY <1>1, <1>2 DEF Jumps
<1>4. QED
  BY <1>1, <1>2, <1>3 DEF Sound, Reached, Here

\* A statement that leaves the scopes alone.
LEMMA SoundStraight ==
    ASSUME TypeInv, NEW lev, NEW at, Sound(lev, at), status = "compiling",
           UNCHANGED <<scopes, open, variables, block_locals, function_locals, declared>>,
           Counters(code) \subseteq Counters(code'),
           NEW up, Flow(code', Heads(open), up),
           up[Len(code') + 1] = Both(Bound(scopes, Len(scopes))),
           \A j \in 1 .. Len(code) : up[j] = at[j]
    PROVE  Sound(lev, up)'
<1>1. Scoped(lev)'
  BY SoundFacts, ScopedSame
<1>2. Levels(lev)'
  BY DEF Sound, Levels
<1>3. Waiting(open, scopes, lev, up)
  <2>1. \A i \in 1 .. Len(scopes) - 1, x \in Names : scopes[i][x] = scopes[i][x]
    OBVIOUS
  <2>2. open \in Seq(Block) /\ LevelsOf(lev, open, Len(scopes))
    BY SoundFacts, LevelsNow
  <2>3. QED
    BY <2>1, <2>2, SoundFacts, WaitingKept
<1>4. Flow(code, Heads(open), up)'
  OBVIOUS
<1>5. Reached(lev, up)'
  BY <1>3 DEF Reached, Here
<1>6. QED
  BY <1>1, <1>2, <1>4, <1>5 DEF Sound

LEMMA BoundLive ==
    \A sc, n : /\ Both(Bound(sc, n)) \in States
               /\ Both(Bound(sc, n)).live = Bound(sc, n)
               /\ Both(Bound(sc, n)).keyed = Bound(sc, n)
               /\ [live |-> Bound(sc, n), keyed |-> {}] \in States
BY BothIs, BoundIs DEF States

LEMMA ExprSound ==
    ASSUME TypeInv, NEW lev, NEW at, Sound(lev, at), Expr
    PROVE  \E up : Sound(lev, up)'
<1>1. PICK i \in Instr : /\ status = "compiling"
                         /\ code' = Append(code, i)
                         /\ \/ i.op \in {"copy", "save", "load"}
                            \/ i.op = "deref"
                            \/ i.op = "addr" /\ \E x \in Names : Visible(x) /\ i.var = variables[x]
  <2>1. PICK form : \E i \in Instr :
              /\ Compile(form)
              /\ code' = Append(code, i)
              /\ \/ i.op \in {"copy", "save", "load"}
                 \/ i.op = "deref"
                 \/ i.op = "addr" /\ \E x \in Names : Visible(x) /\ i.var = variables[x]
    BY ExprEmits
  <2>2. QED
    BY <2>1 DEF Compile
<1>2. UNCHANGED <<scopes, open, variables, block_locals, function_locals, declared>>
  BY DEF Expr
<1>3. PICK n, b : n \in Nat /\ n = Len(code) /\ b = Bound(scopes, Len(scopes))
  BY <1>1, SoundFacts
<1>4. /\ code \in Seq(Instr) /\ Jumps(code, Heads(open)) /\ Flow(code, Heads(open), at)
      /\ at[n + 1] = Both(b)
      /\ Both(b) \in States /\ Both(b).live = b /\ Both(b).keyed = b
  BY <1>1, <1>3, SoundFacts, BoundLive
<1>5. i.op \notin JumpOps
  BY <1>1, PlainOps
<1>6. Effect(i, at[n + 1], Both(b), Counters(Append(code, i)))
  <2>1. i.op = "addr" => i.var \in b
    BY <1>1, <1>3, SoundFacts, ScopedFacts
  <2>2. QED
    BY <1>1, <1>4, <2>1, EffectIs
<1>7. PICK up : Flow(Append(code, i), Heads(open), up) /\ Continues(up, at, n, Both(b))
  BY <1>3, <1>4, <1>5, <1>6, FlowPlain
<1>8. Len(code') = n + 1 /\ Counters(code) \subseteq Counters(code')
  BY <1>1, <1>3, <1>4, Appended, CountersKept
<1>9. Sound(lev, up)'
  <2>1. up[Len(code') + 1] = Both(Bound(scopes, Len(scopes)))
    <3>1. up[n + 2] = Both(b)
      BY <1>7 DEF Continues
    <3>2. Len(code') + 1 = n + 2
      BY <1>3, <1>8
    <3>3. QED
      BY <1>3, <3>1, <3>2
  <2>2. \A j \in 1 .. Len(code) : up[j] = at[j]
    BY <1>3, <1>7 DEF Continues
  <2>3. Flow(code', Heads(open), up)
    BY <1>1, <1>7
  <2>4. QED
    BY <1>1, <1>2, <1>8, <2>1, <2>2, <2>3, SoundStraight
<1>10. QED
  BY <1>9

\* A return releases every key; what follows it is reached by nothing.
LEMMA ReturnSound ==
    ASSUME TypeInv, NEW lev, NEW at, Sound(lev, at), Return
    PROVE  \E up : Sound(lev, up)'
<1>1. PICK r \in Instr, e \in Instr, t \in Instr :
         /\ status = "compiling"
         /\ r.op = "exit" /\ r.release = Allocas(function_locals) /\ r.ends = {}
         /\ t.op = "ret"
         /\ \/ code' = Append(Append(code, r), t)
            \/ /\ code' = Append(Append(Append(code, r), e), t)
               /\ e.op = "deref" /\ "return_deref" \in Forms
  <2>1. PICK form : \E r \in Instr, e \in Instr, t \in Instr :
              /\ Compile(form)
              /\ r.op = "exit" /\ r.release = Allocas(function_locals) /\ r.ends = {}
              /\ t.op = "ret"
              /\ \/ code' = Append(Append(code, r), t)
                 \/ /\ code' = Append(Append(Append(code, r), e), t)
                    /\ e.op = "deref" /\ "return_deref" \in Forms
    BY ReturnEmits
  <2>2. QED
    BY <2>1 DEF Compile
<1>2. UNCHANGED <<scopes, open, variables, block_locals, function_locals, declared>>
  BY DEF Return
<1>3. PICK n, b, s, heads : /\ n \in Nat /\ n = Len(code) /\ b = Bound(scopes, Len(scopes))
                            /\ s = [live |-> b, keyed |-> {}]
                            /\ heads = Heads(open)
  BY <1>1, SoundFacts
<1>4. /\ code \in Seq(Instr) /\ Jumps(code, heads) /\ Flow(code, heads, at)
      /\ at[n + 1] = Both(b)
      /\ Both(b) \in States /\ Both(b).live = b /\ Both(b).keyed = b
      /\ s \in States /\ s.live = b /\ s.keyed = {}
  BY <1>1, <1>3, SoundFacts, BoundLive
<1>5. "exit" \notin JumpOps /\ "ret" \notin JumpOps /\ "deref" \notin JumpOps
  BY PlainOps
<1>6. PICK c \in Seq(Instr) : c = Append(code, r) /\ Len(c) = n + 1 /\ Jumps(c, heads)
  BY <1>1, <1>3, <1>4, <1>5, JumpsPlain
<1>7. PICK f : Flow(c, heads, f) /\ Continues(f, at, n, s)
  <2>1. b \subseteq r.release
    BY <1>1, <1>3, SoundFacts, ScopedFacts
  <2>2. [live |-> b \ r.ends, keyed |-> b \ (r.release \cup r.ends)] = s
    BY <1>1, <1>3, <2>1
  <2>3. Effect(r, at[n + 1], s, Counters(Append(code, r)))
    BY <1>1, <1>4, <2>2, EffectIs
  <2>4. QED
    BY <1>1, <1>3, <1>4, <1>5, <1>6, <2>3, FlowPlain
<1>8. f[n + 2] = s /\ \A j \in 1 .. n + 1 : f[j] = at[j]
  BY <1>7 DEF Continues
<1>9. Counters(code) \subseteq Counters(c)
  BY <1>4, <1>6, CountersKept
<1>10. \E up : /\ Flow(code', heads, up)
               /\ up[Len(code') + 1] = Both(b)
               /\ \A j \in 1 .. n : up[j] = at[j]
               /\ Counters(code) \subseteq Counters(code')
  <2>1. CASE code' = Append(Append(code, r), t)
    <3>1. PICK k \in Nat : k = n + 1
      BY <1>3
    <3>2. f[k + 1] = s /\ k = Len(c)
      BY <1>3, <1>6, <1>8, <3>1
    <3>3. Effect(t, f[k + 1], Both(b), Counters(Append(c, t)))
      BY <1>1, <1>4, <3>2, EffectIs
    <3>4. PICK up : Flow(Append(c, t), heads, up) /\ Continues(up, f, k, Both(b))
      BY <1>1, <1>4, <1>5, <1>6, <1>7, <3>2, <3>3, FlowPlain
    <3>5. code' = Append(c, t) /\ Len(code') = k + 1
      BY <1>6, <2>1, <3>2, Appended
    <3>6. up[k + 2] = Both(b) /\ \A j \in 1 .. k + 1 : up[j] = f[j]
      BY <3>4 DEF Continues
    <3>7. Len(code') + 1 = k + 2
      BY <3>5
    <3>8. \A j \in 1 .. n : up[j] = at[j]
      BY <1>3, <1>8, <3>1, <3>6
    <3>9. Counters(code) \subseteq Counters(code')
      BY <1>9, <3>5, CountersKept
    <3>10. QED
      BY <3>4, <3>5, <3>6, <3>7, <3>8, <3>9
  <2>2. CASE /\ code' = Append(Append(Append(code, r), e), t)
             /\ e.op = "deref" /\ "return_deref" \in Forms
    <3>1. PICK k \in Nat : k = n + 1
      BY <1>3
    <3>2. f[k + 1] = s /\ k = Len(c)
      BY <1>3, <1>6, <1>8, <3>1
    <3>3. Effect(e, f[k + 1], s, Counters(Append(c, e)))
      BY <2>2, <3>2, EffectIs
    <3>4. PICK g : Flow(Append(c, e), heads, g) /\ Continues(g, f, k, s)
      BY <1>4, <1>5, <1>6, <1>7, <2>2, <3>2, <3>3, FlowPlain
    <3>5. PICK d \in Seq(Instr), l \in Nat :
             d = Append(c, e) /\ l = k + 1 /\ l = Len(d) /\ Jumps(d, heads)
      BY <1>5, <1>6, <2>2, <3>2, JumpsPlain
    <3>6. g[l + 1] = s /\ \A j \in 1 .. l : g[j] = f[j]
      <4>1. g[k + 2] = s /\ \A j \in 1 .. k + 1 : g[j] = f[j]
        BY <3>4 DEF Continues
      <4>2. l + 1 = k + 2
        BY <3>5
      <4>3. QED
        BY <3>5, <4>1, <4>2
    <3>7. Effect(t, g[l + 1], Both(b), Counters(Append(d, t)))
      BY <1>1, <1>4, <3>6, EffectIs
    <3>8. Flow(d, heads, g)
      BY <3>4, <3>5
    <3>9. PICK up : Flow(Append(d, t), heads, up) /\ Continues(up, g, l, Both(b))
      BY <1>1, <1>4, <1>5, <3>5, <3>6, <3>7, <3>8, FlowPlain
    <3>10. code' = Append(d, t) /\ Len(code') = l + 1
      BY <1>6, <2>2, <3>5, Appended
    <3>11. up[l + 2] = Both(b) /\ \A j \in 1 .. l + 1 : up[j] = g[j]
      BY <3>9 DEF Continues
    <3>12. Len(code') + 1 = l + 2
      BY <3>10
    <3>13. \A j \in 1 .. n : j \in 1 .. l /\ j \in 1 .. l + 1 /\ j \in 1 .. n + 1
      BY <1>3, <3>1, <3>5
    <3>14. \A j \in 1 .. n : up[j] = at[j]
      BY <1>8, <3>6, <3>11, <3>13
    <3>15. Counters(code) \subseteq Counters(code')
      BY <1>6, <1>9, <3>5, <3>10, CountersKept
    <3>16. QED
      BY <3>9, <3>10, <3>11, <3>12, <3>14, <3>15
  <2>3. QED
    BY <1>1, <2>1, <2>2
<1>11. PICK up : /\ Flow(code', heads, up)
                 /\ up[Len(code') + 1] = Both(b)
                 /\ \A j \in 1 .. n : up[j] = at[j]
                 /\ Counters(code) \subseteq Counters(code')
  BY <1>10
<1>12. /\ Flow(code', Heads(open), up)
       /\ up[Len(code') + 1] = Both(Bound(scopes, Len(scopes)))
       /\ \A j \in 1 .. Len(code) : up[j] = at[j]
       /\ Counters(code) \subseteq Counters(code')
  BY <1>3, <1>11
<1>13. Sound(lev, up)'
  BY <1>1, <1>2, <1>12, SoundStraight
<1>14. QED
  BY <1>13

\* The parts of Sound, for a step that goes on compiling.
LEMMA SoundMade ==
    ASSUME NEW hi, NEW f, Levels(hi)', Scoped(hi)', Flow(code', Heads(open'), f),
           NEW q, q = Len(code'), NEW l, l = Len(scopes'),
           f[q + 1] = Both(Bound(scopes', l)), Waiting(open', scopes', hi, f)
    PROVE  Sound(hi, f)'
<1>1. Reached(hi, f)'
  BY DEF Reached, Here
<1>2. QED
  BY <1>1 DEF Sound

LEMMA DeclSound ==
    ASSUME TypeInv, ~Shadowing, NEW lev, NEW at, Sound(lev, at), NEW x \in Names, Decl(x)
    PROVE  \E up : Sound(lev, up)'
<1>1. PICK d, l : /\ status = "compiling" /\ d \in Decls
                  /\ l = Len(scopes) /\ l = Len(scopes') /\ l \in Nat \ {0}
                  /\ DOMAIN scopes = 1 .. l
                  /\ code' = Append(code, Declare(d))
                  /\ UNCHANGED open
                  /\ ~Visible(x)
                  /\ \A i \in 1 .. l, m \in Names :
                        scopes'[i][m] = IF i = l /\ m = x THEN d ELSE scopes[i][m]
  <2>1. PICK d \in Decls : /\ status = "compiling"
                           /\ code' = Append(code, Declare(d))
                           /\ UNCHANGED open
                           /\ ~Visible(x)
                           /\ Len(scopes) \in Nat \ {0} /\ Len(scopes') = Len(scopes)
                           /\ DOMAIN scopes = 1 .. Len(scopes)
                           /\ \A i \in 1 .. Len(scopes), m \in Names :
                                 scopes'[i][m] = IF i = Len(scopes) /\ m = x THEN d
                                                 ELSE scopes[i][m]
    BY DeclFacts
  <2>2. PICK l : l = Len(scopes)
    OBVIOUS
  <2>3. /\ l = Len(scopes) /\ l = Len(scopes') /\ l \in Nat \ {0} /\ DOMAIN scopes = 1 .. l
        /\ \A i \in 1 .. l, m \in Names :
              scopes'[i][m] = IF i = l /\ m = x THEN d ELSE scopes[i][m]
    BY <2>1, <2>2
  <2>4. QED
    BY <2>1, <2>3
<1>2. Scoped(lev)' /\ Levels(lev)'
  BY SoundFacts, ScopedDecl, <1>1
<1>3. PICK n, b, i, h : /\ n \in Nat /\ n = Len(code) /\ b = Bound(scopes, l)
                        /\ i \in Instr /\ i = Declare(d) /\ i.op = "declare" /\ i.var = d
                        /\ h = Heads(open)
  BY <1>1, SoundFacts, InstrMade
<1>4. /\ code \in Seq(Instr) /\ Jumps(code, h) /\ Flow(code, h, at) /\ h \subseteq 1 .. n
      /\ at[n + 1] = Both(b) /\ Both(b).live = b /\ Both(b).keyed = b
  BY <1>1, <1>3, SoundFacts, BoundLive
<1>5. Bound(scopes', l) = b \cup {d}
  <2>1. scopes[l][x] = None
    BY <1>1, SoundFacts, ScopedFacts
  <2>2. \A j \in 1 .. l - 1, m \in Names : scopes[j][m] = scopes'[j][m]
    BY <1>1
  <2>3. \A m \in Names : scopes'[l][m] = IF m = x THEN d ELSE scopes[l][m]
    BY <1>1
  <2>4. QED
    BY <1>1, <1>3, <2>1, <2>2, <2>3, BoundBind
<1>6. PICK s \in States : s = Both(Bound(scopes', l)) /\ s.live = b \cup {d} /\ s.keyed = b \cup {d}
  BY <1>5, BoundLive
<1>7. s = [live |-> b \cup {d}, keyed |-> b \cup {d}]
  BY <1>5, <1>6 DEF Both
<1>8. Effect(i, at[n + 1], s, Counters(Append(code, i)))
  BY <1>3, <1>4, <1>7, EffectIs
<1>9. PICK up : Flow(Append(code, i), h, up) /\ Continues(up, at, n, s)
  BY <1>3, <1>4, <1>8, PlainOps, FlowPlain
<1>10. up[n + 2] = s /\ \A j \in 1 .. n : up[j] = at[j]
  BY <1>3, <1>9 DEF Continues
<1>11. PICK q : q = Len(code') /\ q + 1 = n + 2
  BY <1>1, <1>3, <1>4, Appended
<1>12. Waiting(open, scopes', lev, up)
  <2>1. \A j \in 1 .. l - 1, m \in Names : scopes'[j][m] = scopes[j][m]
    BY <1>1
  <2>2. open \in Seq(Block) /\ LevelsOf(lev, open, l)
    BY <1>1, SoundFacts, LevelsNow
  <2>3. Heads(open) \subseteq 1 .. n /\ Waiting(open, scopes, lev, at)
    BY <1>1, <1>3, SoundFacts
  <2>4. n \in Nat /\ \A j \in 1 .. n : up[j] = at[j]
    BY <1>3, <1>10
  <2>5. QED
    BY <2>1, <2>2, <2>3, <2>4, WaitingKept
<1>13. Sound(lev, up)'
  <2>1. Flow(code', Heads(open'), up)
    BY <1>1, <1>3, <1>9
  <2>2. up[q + 1] = Both(Bound(scopes', l))
    BY <1>6, <1>10, <1>11
  <2>3. Waiting(open', scopes', lev, up)
    BY <1>1, <1>12
  <2>4. QED
    BY <1>1, <1>2, <1>11, <2>1, <2>2, <2>3, SoundMade
<1>14. QED
  BY <1>13

LEMMA OpenSound ==
    ASSUME TypeInv, NEW lev, NEW at, Sound(lev, at), NEW kind \in {"block", "if", "while"},
           NEW instrs, kind = "block" => instrs = <<>>, kind # "block" => instrs = <<Branch>>,
           OpenBlock(kind, instrs)
    PROVE  \E hi, up : Sound(hi, up)'
<1>1. PICK b \in Block, n \in Nat :
         /\ n = Len(code) /\ b.kind = kind /\ b.head = n + 1
         /\ status = "compiling" /\ stmts < MaxStmts /\ stmts' = stmts + 1
         /\ UNCHANGED <<status, pc, frame, library, cell, result, lives, calls>>
         /\ open' = Append(open, b)
         /\ scopes' = Append(scopes, Empty)
         /\ block_locals' = Append(block_locals, {})
         /\ UNCHANGED <<variables, function_locals, declared>>
         /\ kind = "block" => code' = code /\ Heads(open') = Heads(open)
         /\ kind # "block" => /\ code' = Append(code, Branch)
                              /\ Heads(open') = Heads(open) \cup {n + 1}
  BY OpenFacts
<1>2. PICK l, m, s, h : /\ l \in Nat \ {0} /\ l = Len(scopes) /\ m \in Nat /\ m = Len(open)
                        /\ s = Bound(scopes, l) /\ h = Heads(open)
  BY <1>1, SoundFacts, LevelsNow
<1>3. /\ CompilerOK /\ OpenOK /\ Levels(lev) /\ Scoped(lev)
      /\ open \in Seq(Block) /\ LevelsOf(lev, open, l)
      /\ code \in Seq(Instr) /\ Jumps(code, h) /\ Flow(code, h, at) /\ h \subseteq 1 .. n
      /\ Waiting(open, scopes, lev, at)
      /\ at[n + 1] = Both(s) /\ Both(s) \in States /\ Both(s).live = s /\ Both(s).keyed = s
  BY <1>1, <1>2, SoundFacts, LevelsNow, BoundLive
<1>4. PICK hi : /\ LevelsOf(hi, Append(open, b), l + 1)
                /\ \A k \in 0 .. m : hi[k] = lev[k]
                /\ hi[m + 1] = l + 1
  <2>1. Width(b.kind) = 1
    BY <1>1 DEF Width
  <2>2. open \in Seq(Block) /\ LevelsOf(lev, open, l) /\ b \in Block
    BY <1>3
  <2>3. PICK hi : /\ LevelsOf(hi, Append(open, b), l + Width(b.kind))
                  /\ \A k \in 0 .. Len(open) : hi[k] = lev[k]
                  /\ hi[Len(open) + 1] = l + Width(b.kind)
    BY <2>2, LevelsPush
  <2>4. QED
    BY <1>2, <2>1, <2>3, Zenon
<1>5. /\ Len(scopes') = l + 1
      /\ \A i \in 1 .. l : scopes'[i] = scopes[i]
      /\ \A x \in Names : scopes'[l + 1][x] = None
  <2>1. Empty \in Scope /\ \A x \in Names : Empty[x] = None
    BY DEF Empty, Scope, Targets
  <2>2. scopes \in Seq(Scope) /\ scopes' = Append(scopes, Empty)
    BY <1>1, <1>3 DEF CompilerOK
  <2>3. QED
    BY <1>2, <2>1, <2>2, PushIs
<1>6. Bound(scopes', l + 1) = s /\ Bound(scopes', l) = s
  BY <1>2, <1>5, BoundPush, BoundSame
<1>7. PICK up : /\ Flow(code', Heads(open'), up)
                /\ up[Len(code') + 1] = Both(s)
                /\ \A j \in 1 .. n : up[j] = at[j]
                /\ kind # "block" => up[n + 1] = Both(s)
                /\ Counters(code) \subseteq Counters(code')
  <2>1. CASE kind = "block"
    BY <1>1, <1>2, <1>3, <2>1
  <2>2. CASE kind # "block"
    <3>1. PICK i : i \in Instr /\ i = Branch /\ i.op = "branch" /\ i.op \in JumpOps
      BY InstrMade DEF JumpOps
    <3>2. Effect(i, at[n + 1], Both(s), Counters(Append(code, i)))
      BY <1>3, <3>1, EffectIs
    <3>3. PICK up : Flow(Append(code, i), h \cup {n + 1}, up) /\ Continues(up, at, n, Both(s))
      <4>1. PICK more : more = {n + 1}
        OBVIOUS
      <4>2. more # {} /\ more \subseteq {n + 1}
        BY <4>1
      <4>3. at[n + 1].keyed \subseteq at[n + 1].live
        BY <1>3
      <4>4. \E up : Flow(Append(code, i), h \cup more, up) /\ Continues(up, at, n, Both(s))
        BY <1>1, <1>3, <3>1, <3>2, <4>2, <4>3, FlowAppend
      <4>5. QED
        BY <4>1, <4>4
    <3>4. up[n + 2] = Both(s) /\ \A j \in 1 .. n + 1 : up[j] = at[j]
      BY <3>3 DEF Continues
    <3>5. code' = Append(code, i) /\ Heads(open') = h \cup {n + 1}
      BY <1>1, <1>2, <2>2, <3>1
    <3>6. Len(code') = n + 1 /\ Counters(code) \subseteq Counters(code')
      <4>1. code \in Seq(Instr) /\ i \in Instr /\ n = Len(code)
        BY <1>1, <1>3, <3>1
      <4>2. Len(Append(code, i)) = n + 1 /\ Counters(code) \subseteq Counters(Append(code, i))
        BY <4>1, Appended, CountersKept
      <4>3. QED
        BY <3>5, <4>2
    <3>7. Flow(code', Heads(open'), up)
      BY <3>3, <3>5
    <3>8. n \in Nat /\ Len(code') + 1 = n + 2
      BY <3>6
    <3>9. up[n + 1] = Both(s) /\ \A j \in 1 .. n : up[j] = at[j]
      BY <1>3, <3>4
    <3>10. QED
      BY <3>4, <3>6, <3>7, <3>8, <3>9
  <2>3. QED
    BY <2>1, <2>2
<1>8. Waiting(open', scopes', hi, up)
  <2>1. Waiting(open, scopes', lev, up)
    <3>1. \A j \in 1 .. l - 1, x \in Names : scopes'[j][x] = scopes[j][x]
      BY <1>2, <1>5
    <3>2. QED
      BY <1>2, <1>3, <1>7, <3>1, WaitingKept
  <2>2. b.kind # "block" => up[b.head] = Both(Bound(scopes', hi[m + 1] - 1))
    <3>1. hi[m + 1] - 1 = l
      BY <1>2, <1>4
    <3>2. QED
      BY <1>1, <1>6, <1>7, <3>1
  <2>3. Waiting(Append(open, b), scopes', hi, up)
    BY <1>2, <1>3, <1>4, <2>1, <2>2, WaitingPush
  <2>4. QED
    BY <1>1, <2>3
<1>9. Scoped(hi)'
  <2>1. b.kind # "for"
    BY <1>1
  <2>2. /\ open' = Append(open, b) /\ scopes' = Append(scopes, Empty)
        /\ block_locals' = Append(block_locals, {})
        /\ UNCHANGED <<variables, function_locals, declared>>
    BY <1>1
  <2>3. Counters(code) \subseteq Counters(code')
    BY <1>7
  <2>4. (\A k \in 0 .. Len(open) : hi[k] = lev[k]) /\ hi[Len(open) + 1] = Len(scopes) + 1
    BY <1>2, <1>4
  <2>5. QED
    BY <1>3, <2>1, <2>2, <2>3, <2>4, ScopedOpen
<1>10. Sound(hi, up)'
  <2>1. Levels(hi)'
    BY <1>1, <1>4, <1>5 DEF Levels
  <2>2. PICK q, k : q = Len(code') /\ k = l + 1 /\ k = Len(scopes')
    BY <1>5
  <2>3. up[q + 1] = Both(Bound(scopes', k))
    BY <1>6, <1>7, <2>2
  <2>4. QED
    BY <1>7, <1>8, <1>9, <2>1, <2>2, <2>3, SoundMade
<1>11. QED
  BY <1>10

LEMMA ForSound ==
    ASSUME TypeInv, ~Shadowing, NEW lev, NEW at, Sound(lev, at), NEW x \in Ints, For(x)
    PROVE  \E hi, up : Sound(hi, up)'
<1>1. PICK d \in Decls, b \in Block, n \in Nat :
         /\ d = declared + 1 /\ n = Len(code)
         /\ b.kind = "for" /\ b.head = n + 2
         /\ status = "compiling" /\ stmts < MaxStmts /\ stmts' = stmts + 1
         /\ UNCHANGED <<status, pc, frame, library, cell, result, lives, calls>>
         /\ open' = Append(open, b)
         /\ scopes' = ForBind(scopes, x, d)
         /\ declared' = d
         /\ variables' = [variables EXCEPT ![x] = d]
         /\ function_locals' = function_locals \cup {x}
         /\ block_locals' = Append(WithLocal(x), {})
         /\ code' = Append(Append(code, DeclareCounter(d)), Branch)
         /\ Shadowing \/ ~Visible(x)
  BY ForFacts
<1>2. PICK l, m, s, h, w : /\ l \in Nat \ {0} /\ l = Len(scopes) /\ m \in Nat /\ m = Len(open)
                           /\ s = Bound(scopes, l) /\ h = Heads(open) /\ w = s \cup {d}
  BY <1>1, SoundFacts, LevelsNow
<1>3. /\ open \in Seq(Block) /\ LevelsOf(lev, open, l)
      /\ code \in Seq(Instr) /\ Jumps(code, h) /\ Flow(code, h, at) /\ h \subseteq 1 .. n
      /\ Waiting(open, scopes, lev, at)
      /\ at[n + 1] = Both(s) /\ Both(s).live = s /\ Both(s).keyed = s
  BY <1>1, <1>2, SoundFacts, LevelsNow, BoundLive
<1>4. PICK hi : /\ Scoped(hi)' /\ Levels(hi)'
                /\ \A k \in 0 .. m : hi[k] = lev[k]
                /\ hi[m + 1] = l + 2
  <2>1. Levels(lev) /\ Scoped(lev)
    BY <1>1, SoundFacts
  <2>2. \E hi : /\ Scoped(hi)' /\ Levels(hi)'
                /\ \A k \in 0 .. Len(open) : hi[k] = lev[k]
                /\ hi[Len(open) + 1] = Len(scopes) + 2
    BY <2>1, ScopedFor
  <2>3. QED
    BY <1>2, <2>2
<1>5. /\ Len(scopes') = l + 2
      /\ \A i \in 1 .. l : scopes'[i] = scopes[i]
      /\ \A y \in Names : /\ scopes'[l + 1][y] = IF y = x THEN d ELSE None
                          /\ scopes'[l + 2][y] = None
  <2>1. PICK sc \in Seq(Scope) : sc = scopes
    BY DEF TypeInv, CompilerOK
  <2>2. x \in Names
    BY DEF Names
  <2>3. /\ Len(ForBind(sc, x, d)) = Len(sc) + 2
        /\ \A i \in 1 .. Len(sc) : ForBind(sc, x, d)[i] = sc[i]
        /\ \A y \in Names : /\ ForBind(sc, x, d)[Len(sc) + 1][y] = IF y = x THEN d ELSE None
                            /\ ForBind(sc, x, d)[Len(sc) + 2][y] = None
    BY <2>2, ForScopes
  <2>4. scopes' = ForBind(sc, x, d) /\ l = Len(sc)
    BY <1>1, <1>2, <2>1
  <2>5. QED
    BY <2>1, <2>3, <2>4
<1>6. Bound(scopes', l + 2) = w /\ Bound(scopes', l + 1) = w
  <2>1. PICK a : /\ \A i \in 1 .. l : a[i] = scopes[i]
                 /\ \A y \in Names : a[l + 1][y] = None
    <3>1. Empty \in Scope /\ \A y \in Names : Empty[y] = None
      BY DEF Empty, Scope, Targets
    <3>2. scopes \in Seq(Scope)
      BY DEF TypeInv, CompilerOK
    <3>3. /\ \A i \in 1 .. l : Append(scopes, Empty)[i] = scopes[i]
          /\ \A y \in Names : Append(scopes, Empty)[l + 1][y] = None
      BY <1>2, <3>1, <3>2, PushIs
    <3>4. QED
      BY <3>3
  <2>2. PICK k, j : k = l + 1 /\ k \in Nat \ {0} /\ k - 1 = l /\ j = l + 2 /\ j = k + 1 /\ j - 1 = k
    BY <1>2
  <2>3. Bound(a, k) = s
    BY <1>2, <2>1, <2>2, BoundPush
  <2>4. Bound(scopes', k) = w
    <3>1. \A i \in 1 .. k - 1, y \in Names : a[i][y] = scopes'[i][y]
      BY <1>5, <2>1, <2>2
    <3>2. \A y \in Names : scopes'[k][y] = IF y = x THEN d ELSE a[k][y]
      BY <1>5, <2>1, <2>2
    <3>3. a[k][x] = None /\ x \in Names
      BY <2>1, <2>2 DEF Names
    <3>4. PICK sc : sc = scopes'
      OBVIOUS
    <3>5. k \in Nat \ {0}
      BY <2>2
    <3>6. Bound(sc, k) = Bound(a, k) \cup {d}
      <4>1. \A i \in 1 .. k - 1, y \in Names : a[i][y] = sc[i][y]
        BY <3>1, <3>4
      <4>2. \A y \in Names : sc[k][y] = IF y = x THEN d ELSE a[k][y]
        BY <3>2, <3>4
      <4>3. QED
        BY <3>3, <3>5, <4>1, <4>2, BoundBind
    <3>7. QED
      BY <1>2, <2>3, <3>4, <3>6
  <2>5. Bound(scopes', k + 1) = Bound(scopes', k)
    <3>1. \A y \in Names : scopes'[k + 1][y] = None
      BY <1>5, <2>2
    <3>2. QED
      BY <2>2, <3>1, BoundPush
  <2>6. QED
    BY <2>2, <2>4, <2>5
<1>7. Both(w) \in States /\ Both(w).live = w /\ Both(w).keyed = w
  BY <1>6, BoundLive
<1>8. PICK i, j, c, k : /\ i \in Instr /\ i = DeclareCounter(d) /\ i.op = "declare" /\ i.var = d
                        /\ j \in Instr /\ j = Branch /\ j.op = "branch" /\ j.op \in JumpOps
                        /\ c \in Seq(Instr) /\ c = Append(code, i)
                        /\ k \in Nat /\ k = n + 1 /\ k = Len(c)
                        /\ Jumps(c, h)
  <2>1. PICK i : i \in Instr /\ i = DeclareCounter(d) /\ i.op = "declare" /\ i.var = d
    BY InstrMade
  <2>2. Append(code, i) \in Seq(Instr) /\ Len(Append(code, i)) = n + 1 /\ Jumps(Append(code, i), h)
    BY <1>1, <1>3, <2>1, JumpsPlain, PlainOps
  <2>3. PICK j : j \in Instr /\ j = Branch /\ j.op = "branch" /\ j.op \in JumpOps
    BY InstrMade DEF JumpOps
  <2>4. PICK c : c \in Seq(Instr) /\ c = Append(code, i) /\ Len(c) = n + 1 /\ Jumps(c, h)
    BY <2>2
  <2>5. PICK k : k \in Nat /\ k = n + 1 /\ k = Len(c)
    BY <1>1, <2>4
  <2>6. QED
    BY <2>1, <2>3, <2>4, <2>5, Zenon
<1>9. PICK f : Flow(c, h, f) /\ Continues(f, at, n, Both(w))
  <2>1. Both(w) = [live |-> s \cup {i.var}, keyed |-> s \cup {i.var}]
    BY <1>2, <1>8 DEF Both
  <2>2. Effect(i, at[n + 1], Both(w), Counters(Append(code, i)))
    BY <1>3, <1>8, <2>1, EffectIs
  <2>3. \E f : Flow(Append(code, i), h, f) /\ Continues(f, at, n, Both(w))
    BY <1>1, <1>3, <1>7, <1>8, <2>2, FlowPlain, PlainOps
  <2>4. QED
    BY <1>8, <2>3
<1>10. f[k + 1] = Both(w) /\ \A e \in 1 .. k : f[e] = at[e]
  BY <1>1, <1>8, <1>9 DEF Continues
<1>11. PICK up : Flow(Append(c, j), h \cup {k + 1}, up) /\ Continues(up, f, k, Both(w))
  <2>1. PICK more : more = {k + 1}
    OBVIOUS
  <2>2. more # {} /\ more \subseteq {k + 1}
    BY <2>1
  <2>3. f[k + 1].keyed \subseteq f[k + 1].live
    BY <1>7, <1>10
  <2>4. Effect(j, f[k + 1], Both(w), Counters(Append(c, j)))
    BY <1>8, <1>10, EffectIs
  <2>5. \E up : Flow(Append(c, j), h \cup more, up) /\ Continues(up, f, k, Both(w))
    BY <1>7, <1>8, <1>9, <2>2, <2>3, <2>4, FlowAppend
  <2>6. QED
    BY <2>1, <2>5
<1>12. /\ up[k + 2] = Both(w) /\ up[k + 1] = Both(w)
       /\ \A e \in 1 .. n : up[e] = at[e]
  <2>1. up[k + 2] = Both(w) /\ \A e \in 1 .. k + 1 : up[e] = f[e]
    BY <1>11 DEF Continues
  <2>2. k + 1 \in 1 .. k + 1 /\ \A e \in 1 .. n : e \in 1 .. k /\ e \in 1 .. k + 1
    BY <1>1, <1>8
  <2>3. QED
    BY <1>10, <2>1, <2>2
<1>13. PICK q : q = Len(code') /\ q + 1 = k + 2
  <2>1. code' = Append(c, j)
    BY <1>1, <1>8
  <2>2. Len(Append(c, j)) = Len(c) + 1
    BY <1>8, Appended
  <2>3. QED
    BY <1>8, <2>1, <2>2
<1>14. Waiting(open', scopes', hi, up)
  <2>1. Waiting(open, scopes', lev, up)
    <3>1. \A e \in 1 .. l - 1, y \in Names : scopes'[e][y] = scopes[e][y]
      BY <1>2, <1>5
    <3>2. \A e \in 1 .. n : up[e] = at[e]
      BY <1>12
    <3>3. Heads(open) \subseteq 1 .. n
      BY <1>2, <1>3
    <3>4. /\ n \in Nat /\ open \in Seq(Block) /\ LevelsOf(lev, open, l)
          /\ Waiting(open, scopes, lev, at)
      BY <1>1, <1>3
    <3>5. PICK sc : sc = scopes' /\ \A e \in 1 .. l - 1, y \in Names : sc[e][y] = scopes[e][y]
      BY <3>1
    <3>6. Waiting(open, sc, lev, up)
      <4>1. \A e \in 1 .. l - 1, y \in Names : sc[e][y] = scopes[e][y]
        BY <3>5
      <4>2. n \in Nat /\ Heads(open) \subseteq 1 .. n /\ \A e \in 1 .. n : up[e] = at[e]
        BY <3>2, <3>3, <3>4
      <4>3. open \in Seq(Block) /\ LevelsOf(lev, open, l) /\ Waiting(open, scopes, lev, at)
        BY <3>4
      <4>4. QED
        BY <4>1, <4>2, <4>3, WaitingKept
    <3>7. QED
      BY <3>5, <3>6
  <2>2. up[b.head] = Both(Bound(scopes', hi[m + 1] - 1))
    <3>1. hi[m + 1] - 1 = l + 1 /\ b.head = k + 1
      BY <1>1, <1>2, <1>4, <1>8
    <3>2. QED
      BY <1>6, <1>12, <3>1
  <2>3. (\A e \in 0 .. Len(open) : hi[e] = lev[e]) /\ m = Len(open)
    BY <1>2, <1>4
  <2>4. Waiting(Append(open, b), scopes', hi, up)
    BY <1>3, <2>1, <2>2, <2>3, WaitingPush
  <2>5. QED
    BY <1>1, <2>4
<1>15. Flow(code', Heads(open'), up)
  <2>1. Heads(open') = h \cup {k + 1}
    <3>1. Heads(Append(open, b)) = Heads(open) \cup {b.head}
      BY <1>1, <1>3, HeadsPush
    <3>2. b.head = k + 1
      BY <1>1, <1>8
    <3>3. QED
      BY <1>1, <1>2, <3>1, <3>2
  <2>2. code' = Append(c, j)
    BY <1>1, <1>8
  <2>3. QED
    BY <1>11, <2>1, <2>2
<1>16. Sound(hi, up)'
  <2>1. PICK e : e = l + 2 /\ e = Len(scopes')
    BY <1>5
  <2>2. up[q + 1] = Both(Bound(scopes', e))
    BY <1>6, <1>12, <1>13, <2>1
  <2>3. QED
    BY <1>4, <1>13, <1>14, <1>15, <2>1, <2>2, SoundMade
<1>17. QED
  BY <1>16

\* Where a block ends, the variables of its scope end with their keys, and no others.
LEMMA ExitSound ==
    ASSUME TypeInv, NEW lev, NEW at, Sound(lev, at), status = "compiling"
    PROVE  /\ \E f : /\ Flow(Closed, Heads(open), f)
                     /\ Continues(f, at, Len(code), Both(Bound(scopes, Len(scopes) - 1)))
           /\ Counters(code) \subseteq Counters(Closed)
<1>1. PICK n, l, s, r, i, h : /\ n \in Nat /\ n = Len(code) /\ l \in Nat \ {0} /\ l = Len(scopes)
                              /\ s = Bound(scopes, l) /\ r = Bound(scopes, l - 1)
                              /\ i \in Instr /\ i = BlockExit /\ i.op = "exit" /\ h = Heads(open)
                              /\ i.release = Allocas(Last(block_locals))
                              /\ i.ends = Ends(Last(scopes))
  BY SoundFacts, LevelsNow, BlockExitTyped
<1>2. /\ CompilerOK /\ OpenOK /\ Levels(lev) /\ Scoped(lev)
      /\ code \in Seq(Instr) /\ Jumps(code, h) /\ Flow(code, h, at)
      /\ at[n + 1] = Both(s) /\ Both(s).live = s /\ Both(s).keyed = s
      /\ Both(r) \in States
  BY <1>1, SoundFacts, BoundLive
<1>3. Ends(scopes[l]) = i.ends
  <2>1. scopes \in Seq(Scope) /\ Len(scopes) > 0
    BY <1>1, <1>2 DEF CompilerOK
  <2>2. Last(scopes) = scopes[l]
    BY <1>1, <2>1, FrontIs
  <2>3. QED
    BY <1>1, <2>2
<1>4. r = s \ i.ends /\ i.ends \subseteq i.release /\ r \cap i.release = {}
  <2>1. l \in 1 .. l
    BY <1>1
  <2>2. Bound(scopes, l - 1) = Bound(scopes, l) \ Ends(scopes[l])
    BY <1>1, <1>2, <2>1, ScopedFacts
  <2>3. i.ends \subseteq i.release /\ Bound(scopes, Len(scopes) - 1) \cap i.release = {}
    BY <1>1, <1>2, ScopedFacts
  <2>4. QED
    BY <1>1, <1>3, <2>2, <2>3
<1>5. Effect(i, at[n + 1], Both(r), Counters(Append(code, i)))
  <2>1. Both(r) = [live |-> s \ i.ends, keyed |-> s \ (i.release \cup i.ends)]
    <3>1. s \ (i.release \cup i.ends) = r /\ s \ i.ends = r
      BY <1>4
    <3>2. QED
      BY <3>1 DEF Both
  <2>2. i.ends \ i.release \subseteq Counters(Append(code, i))
    BY <1>4
  <2>3. QED
    BY <1>1, <1>2, <2>1, <2>2, EffectIs
<1>6. \E f : Flow(Append(code, i), h, f) /\ Continues(f, at, n, Both(r))
  BY <1>1, <1>2, <1>5, FlowPlain, PlainOps
<1>7. Counters(code) \subseteq Counters(Append(code, i))
  BY <1>1, <1>2, CountersKept
<1>8. QED
  BY <1>1, <1>6, <1>7 DEF Closed

LEMMA ElseSound ==
    ASSUME TypeInv, NEW lev, NEW at, Sound(lev, at), Else
    PROVE  \E up : Sound(lev, up)'
<1>1. /\ status = "compiling" /\ Len(open) > 0
      /\ Last(open).kind = "if" /\ Last(open) \in Block
      /\ code' = Patch(Then, Last(open).head)
      /\ scopes' = ElseBind(scopes)
      /\ block_locals' = Append(Front(block_locals), {})
      /\ UNCHANGED <<variables, function_locals, declared>>
      /\ Then \in Seq(Instr) /\ Len(Then) = Len(code) + 2
      /\ Jumps(Then, Heads(open) \cup {Len(code) + 2})
      /\ Jump(0) \in Instr /\ Jump(0).op = "jump"
  BY ElseFacts
<1>2. PICK b \in Block : /\ open' = Append(Front(open), b)
                         /\ b.kind = "else" /\ b.head = Len(code) + 2
  BY ElseFacts
<1>3. PICK n, l, m, h, r, k : /\ n \in Nat /\ n = Len(code) /\ l \in Nat \ {0} /\ l = Len(scopes)
                              /\ m \in Nat \ {0} /\ m = Len(open) /\ h = Heads(open)
                              /\ r = Bound(scopes, l - 1) /\ k \in Nat /\ k = n + 1
  <2>1. Len(code) \in Nat /\ Len(scopes) \in Nat \ {0} /\ Len(open) \in Nat
    BY <1>1, SoundFacts, LevelsNow
  <2>2. Len(open) \in Nat \ {0} /\ Len(code) + 1 \in Nat
    BY <1>1, <2>1
  <2>3. QED
    BY <2>1, <2>2, Zenon
<1>4. /\ CompilerOK /\ OpenOK /\ Levels(lev) /\ Scoped(lev)
      /\ open \in Seq(Block) /\ LevelsOf(lev, open, l) /\ lev[m] = l
      /\ code \in Seq(Instr) /\ h \subseteq 1 .. n
      /\ Waiting(open, scopes, lev, at)
      /\ Both(r) \in States /\ Both(r).live = r /\ Both(r).keyed = r
  BY <1>1, <1>3, SoundFacts, LevelsNow, BoundLive
<1>5. PICK c : c \in Seq(Instr) /\ c = Closed /\ Len(c) = k /\ Jumps(c, h)
  BY <1>3, LoopedJumps
<1>6. PICK f : Flow(c, h, f) /\ Continues(f, at, n, Both(r))
  BY <1>1, <1>3, <1>5, ExitSound
<1>7. f[k + 1] = Both(r) /\ \A e \in 1 .. k : f[e] = at[e]
  BY <1>3, <1>6 DEF Continues
<1>8. PICK i : i \in Instr /\ i = Jump(0) /\ i.op = "jump" /\ i.op \in JumpOps
  BY <1>1 DEF JumpOps
<1>9. PICK t : t \in Seq(Instr) /\ t = Then /\ t = Append(c, i) /\ Len(t) = k + 1
               /\ Jumps(t, h \cup {k + 1})
  <2>1. n + 2 = k + 1
    BY <1>3
  <2>2. Then = Append(c, i)
    BY <1>5, <1>8 DEF Then
  <2>3. QED
    BY <1>1, <1>3, <2>1, <2>2
<1>10. PICK up : Flow(t, h \cup {k + 1}, up) /\ Continues(up, f, k, Both(r))
  <2>1. PICK more : more = {k + 1}
    OBVIOUS
  <2>2. more # {} /\ more \subseteq {k + 1}
    BY <2>1
  <2>3. f[k + 1].keyed \subseteq f[k + 1].live
    BY <1>4, <1>7
  <2>4. Effect(i, f[k + 1], Both(r), Counters(Append(c, i)))
    BY <1>7, <1>8, EffectIs
  <2>5. k \in Nat /\ k = Len(c) /\ Jumps(c, h) /\ Flow(c, h, f) /\ Both(r) \in States
    BY <1>3, <1>4, <1>5, <1>6
  <2>6. \E up : Flow(Append(c, i), h \cup more, up) /\ Continues(up, f, k, Both(r))
    BY <1>8, <2>2, <2>3, <2>4, <2>5, FlowAppend
  <2>7. QED
    BY <1>9, <2>1, <2>6
<1>11. up[k + 2] = Both(r) /\ up[k + 1] = Both(r) /\ \A e \in 1 .. n : up[e] = at[e]
  <2>1. up[k + 2] = Both(r) /\ \A e \in 1 .. k + 1 : up[e] = f[e]
    BY <1>10 DEF Continues
  <2>2. k + 1 \in 1 .. k + 1 /\ \A e \in 1 .. n : e \in 1 .. k /\ e \in 1 .. k + 1
    BY <1>3
  <2>3. QED
    BY <1>7, <2>1, <2>2
<1>12. PICK o, top : /\ o \in Seq(Block) /\ o = Front(open) /\ Len(o) = m - 1
                     /\ top = Last(open).head /\ top \in h /\ h \ {top} \subseteq Heads(o)
                     /\ Heads(o) \subseteq h /\ top \in 1 .. n
                     /\ Waiting(o, scopes, lev, at) /\ at[top] = Both(r)
                     /\ LevelsOf(lev, o, l - 1)
  <2>1. open \in Seq(Block) /\ Len(open) > 0 /\ Waiting(open, scopes, lev, at)
        /\ LevelsOf(lev, open, l)
    BY <1>1, <1>4
  <2>2. Front(open) \in Seq(Block) /\ Len(Front(open)) = m - 1
    BY <1>3, <2>1, FrontIs
  <2>3. /\ Last(open).head \in h /\ h \ {Last(open).head} \subseteq Heads(Front(open))
        /\ Heads(Front(open)) \subseteq h
    BY <1>1, <1>3, <2>1, HeadsPop
  <2>4. /\ Waiting(Front(open), scopes, lev, at)
        /\ Last(open).kind # "block" =>
              at[Last(open).head] = Both(Bound(scopes, lev[Len(open)] - 1))
    BY <2>1, WaitingPop
  <2>5. at[Last(open).head] = Both(r)
    BY <1>1, <1>3, <1>4, <2>4
  <2>6. LevelsOf(lev, Front(open), l - 1)
    <3>1. Width(Last(open).kind) = 1
      BY <1>1 DEF Width
    <3>2. LevelsOf(lev, Front(open), l - Width(Last(open).kind))
      BY <2>1, LevelsPop
    <3>3. QED
      BY <3>1, <3>2
  <2>7. Last(open).head \in 1 .. n
    BY <1>4, <2>3
  <2>8. QED
    BY <2>2, <2>3, <2>4, <2>5, <2>6, <2>7
<1>13. Heads(open') = Heads(o) \cup {k + 1}
  <2>1. Heads(Append(o, b)) = Heads(o) \cup {b.head}
    BY <1>2, <1>12, HeadsPush
  <2>2. b.head = k + 1
    BY <1>2, <1>3
  <2>3. QED
    BY <1>2, <1>12, <2>1, <2>2
<1>14. Flow(code', Heads(open'), up) /\ Len(code') = k + 1
  <2>1. PICK a : a = h \cup {k + 1} /\ top \in a /\ a \ {top} \subseteq Heads(open')
    BY <1>12, <1>13
  <2>2. up[Len(t) + 1] = up[top]
    <3>1. Len(t) + 1 = k + 2
      BY <1>3, <1>9
    <3>2. up[top] = at[top]
      BY <1>11, <1>12
    <3>3. QED
      BY <1>11, <1>12, <3>1, <3>2
  <2>3. Jumps(t, a) /\ Flow(t, a, up)
    BY <1>9, <1>10, <2>1
  <2>4. Flow(Patch(t, top), Heads(open'), up)
    BY <2>1, <2>2, <2>3, FlowPatch
  <2>5. Len(Patch(t, top)) = Len(t)
    <3>1. top \in DOMAIN t /\ t[top].op \in JumpOps
      BY <2>1, <2>3 DEF Jumps
    <3>2. QED
      BY <1>9, <3>1, Patched
  <2>6. code' = Patch(t, top)
    BY <1>1, <1>9, <1>12
  <2>7. QED
    BY <1>9, <2>4, <2>5, <2>6
<1>15. Counters(code) \subseteq Counters(code')
  <2>1. Counters(code) \subseteq Counters(c)
    BY <1>1, <1>5, ExitSound
  <2>2. Counters(c) \subseteq Counters(t)
    BY <1>5, <1>8, <1>9, CountersKept
  <2>3. top \in DOMAIN t /\ t[top].op \in JumpOps
    BY <1>9, <1>12 DEF Jumps
  <2>4. Counters(t) \subseteq Counters(Patch(t, top))
    BY <1>9, <2>3, CountersKept
  <2>5. QED
    BY <1>1, <1>9, <1>12, <2>1, <2>2, <2>4
<1>16. Scoped(lev)' /\ Levels(lev)'
  <2>1. Levels(lev)'
    <3>1. LevelsOf(lev, Append(Front(open), b), l)
      BY <1>1, <1>2, <1>4, LevelsElse
    <3>2. Len(scopes') = l
      BY <1>1, <1>3, <1>4, ElseScopes DEF CompilerOK
    <3>3. QED
      BY <1>2, <3>1, <3>2 DEF Levels
  <2>2. QED
    BY <1>1, <1>2, <1>4, <1>15, <2>1, ScopedElse
<1>17. /\ Len(scopes') = l
       /\ \A j \in 1 .. l - 1, x \in Names : scopes'[j][x] = scopes[j][x]
       /\ Bound(scopes', l) = r /\ Bound(scopes', l - 1) = r
  <2>1. PICK a : a \in Seq(Scope) /\ a = scopes /\ Len(a) > 0
    BY <1>3, <1>4 DEF CompilerOK
  <2>2. PICK z : z = ElseBind(a)
    OBVIOUS
  <2>3. /\ Len(z) = l
        /\ \A e \in 1 .. l - 1 : z[e] = a[e]
        /\ \A x \in Names : z[l][x] = None
    BY <1>3, <2>1, <2>2, ElseScopes
  <2>4. PICK j : j \in Nat /\ j = l - 1 /\ j + 1 = l
    BY <1>3
  <2>5. (\A e \in 1 .. j, x \in Names : z[e][x] = a[e][x]) /\ \A x \in Names : z[j + 1][x] = None
    BY <2>3, <2>4
  <2>6. Bound(z, j + 1) = Bound(a, j) /\ Bound(z, j) = Bound(a, j)
    BY <2>4, <2>5, BoundPush, BoundSame
  <2>7. scopes' = z
    BY <1>1, <2>1, <2>2
  <2>8. QED
    BY <1>3, <2>1, <2>3, <2>4, <2>5, <2>6, <2>7
<1>18. Waiting(open', scopes', lev, up)
  <2>1. Waiting(o, scopes', lev, up)
    <3>1. PICK sc, j : /\ sc = scopes' /\ j = l - 1
                       /\ \A e \in 1 .. j - 1, x \in Names : sc[e][x] = scopes[e][x]
      <4>1. PICK j : j = l - 1 /\ \A e \in 1 .. j - 1 : e \in 1 .. l - 1
        BY <1>3
      <4>2. QED
        BY <1>17, <4>1
    <3>2. \A e \in 1 .. j - 1, x \in Names : sc[e][x] = scopes[e][x]
      BY <3>1
    <3>3. n \in Nat /\ Heads(o) \subseteq 1 .. n /\ \A e \in 1 .. n : up[e] = at[e]
      BY <1>3, <1>4, <1>11, <1>12
    <3>4. o \in Seq(Block) /\ LevelsOf(lev, o, j) /\ Waiting(o, scopes, lev, at)
      BY <1>12, <3>1
    <3>5. Waiting(o, sc, lev, up)
      BY <3>2, <3>3, <3>4, WaitingKept
    <3>6. QED
      BY <3>1, <3>5
  <2>2. up[b.head] = Both(Bound(scopes', lev[Len(o) + 1] - 1))
    <3>1. Len(o) + 1 = m /\ b.head = k + 1
      BY <1>2, <1>3, <1>12
    <3>2. lev[Len(o) + 1] - 1 = l - 1
      BY <1>4, <3>1
    <3>3. QED
      BY <1>11, <1>17, <3>1, <3>2
  <2>3. Waiting(Append(o, b), scopes', lev, up)
    BY <1>12, <2>1, <2>2, WaitingPush
  <2>4. QED
    BY <1>2, <1>12, <2>3
<1>19. Sound(lev, up)'
  <2>1. PICK q : q = Len(code') /\ q + 1 = k + 2
    BY <1>3, <1>14
  <2>2. up[q + 1] = Both(Bound(scopes', l))
    BY <1>11, <1>17, <2>1
  <2>3. QED
    BY <1>14, <1>16, <1>17, <1>18, <2>1, <2>2, SoundMade
<1>20. QED
  BY <1>19

\* The jump of a loop to its head at top, and the patch of the head.
LoopMade(c, k, f, r, top, left) ==
    \E t, up : /\ t \in Seq(Instr) /\ t = Patch(Append(c, Jump(top)), top) /\ Len(t) = k + 1
               /\ Jumps(t, left) /\ Flow(t, left, up)
               /\ up[k + 2] = Both(r) /\ \A e \in 1 .. k : up[e] = f[e]
               /\ Counters(c) \subseteq Counters(t)

\* A loop jumps back to its head, and what it skips to is what comes after it.
LEMMA LoopFlow ==
    ASSUME NEW c, NEW k \in Nat, k = Len(c), NEW h, NEW f, Jumps(c, h), Flow(c, h, f),
           NEW r, Both(r) \in States, Both(r).live = r, Both(r).keyed = r,
           f[k + 1] = Both(r), NEW top \in h, f[top] = Both(r),
           NEW left, left \subseteq h, h \ {top} \subseteq left
    PROVE  LoopMade(c, k, f, r, top, left)
<1>1. c \in Seq(Instr) /\ DOMAIN c = 1 .. k /\ top \in 1 .. k
  BY LenProperties DEF Jumps
<1>2. PICK i : i \in Instr /\ i = Jump(top) /\ i.op = "jump" /\ i.op \in JumpOps /\ i.to = top
  BY <1>1, InstrMade DEF JumpOps
<1>3. PICK a : /\ a \in Seq(Instr) /\ a = Append(c, i) /\ Len(a) = k + 1
               /\ Jumps(a, h) /\ Counters(c) \subseteq Counters(a)
  <2>1. i.to \in 1 .. Len(c) + 1
    BY <1>1, <1>2
  <2>2. Jumps(Append(c, i), h \cup {})
    BY <1>2, <2>1, JumpsAppend
  <2>3. Append(c, i) \in Seq(Instr) /\ Len(Append(c, i)) = k + 1
    BY <1>1, <1>2, Appended
  <2>4. Counters(c) \subseteq Counters(Append(c, i))
    BY <1>1, <1>2, CountersKept
  <2>5. QED
    BY <2>2, <2>3, <2>4
<1>4. PICK up : Flow(a, h, up) /\ Continues(up, f, k, Both(r))
  <2>1. PICK none : none = {}
    OBVIOUS
  <2>2. none \subseteq {k + 1} /\ h \cup none = h
    BY <2>1
  <2>3. f[k + 1].keyed \subseteq f[k + 1].live
    OBVIOUS
  <2>4. Effect(i, f[k + 1], Both(r), Counters(Append(c, i)))
    BY <1>2, EffectIs
  <2>5. i.to \in 1 .. k + 1 /\ f[i.to] = f[k + 1]
    BY <1>1, <1>2
  <2>6. \E up : Flow(Append(c, i), h \cup none, up) /\ Continues(up, f, k, Both(r))
    BY <1>2, <2>2, <2>3, <2>4, <2>5, FlowAppend
  <2>7. QED
    BY <1>3, <2>2, <2>6
<1>5. up[k + 2] = Both(r) /\ \A e \in 1 .. k + 1 : up[e] = f[e]
  BY <1>4 DEF Continues
<1>6. \A e \in 1 .. k : up[e] = f[e]
  BY <1>5
<1>7. up[Len(a) + 1] = up[top]
  <2>1. Len(a) + 1 = k + 2
    BY <1>3
  <2>2. up[top] = Both(r)
    BY <1>1, <1>6
  <2>3. QED
    BY <1>5, <2>1, <2>2
<1>8. PICK t : t = Patch(a, top) /\ t \in Seq(Instr) /\ Len(t) = k + 1 /\ Jumps(t, left)
  BY <1>3, PatchedJumps
<1>9. Flow(t, left, up)
  BY <1>3, <1>4, <1>7, <1>8, FlowPatch
<1>10. Counters(c) \subseteq Counters(t)
  <2>1. top \in DOMAIN a /\ a[top].op \in JumpOps
    BY <1>3 DEF Jumps
  <2>2. Counters(a) \subseteq Counters(t)
    BY <1>3, <1>8, <2>1, CountersKept
  <2>3. QED
    BY <1>3, <2>2
<1>11. t = Patch(Append(c, Jump(top)), top)
  BY <1>2, <1>3, <1>8
<1>12. QED
  BY <1>5, <1>6, <1>8, <1>9, <1>10, <1>11 DEF LoopMade

LEMMA CloseFlow ==
    ASSUME TypeInv, NEW lev, NEW at, Sound(lev, at), Close,
           NEW w, w = Width(Last(open).kind)
    PROVE  \E up : /\ Flow(code', Heads(open'), up)
                   /\ up[Len(code') + 1] = Both(Bound(scopes, Len(scopes) - w))
                   /\ \A e \in 1 .. Len(code) : up[e] = at[e]
                   /\ Counters(code) \subseteq Counters(code')
<1>1. /\ status = "compiling" /\ Len(open) > 0
      /\ open' = Front(open)
      /\ \/ Last(open).kind = "block" /\ code' = Closed
         \/ Last(open).kind \in {"if", "else"} /\ code' = Patch(Closed, Last(open).head)
         \/ Last(open).kind = "while" /\ code' = Patch(Looped, Last(open).head)
         \/ /\ Last(open).kind = "for"
            /\ code' = Append(Patch(Looped, Last(open).head),
                              Exit({}, Ends(scopes[Len(scopes) - 1])))
  BY CloseFacts
<1>2. PICK n, l, m, h, r, k : /\ n \in Nat /\ n = Len(code) /\ l \in Nat \ {0} /\ l = Len(scopes)
                              /\ m \in Nat /\ m = Len(open) /\ h = Heads(open)
                              /\ r = Bound(scopes, l - 1) /\ k \in Nat /\ k = n + 1
  <2>1. Len(code) \in Nat /\ Len(scopes) \in Nat \ {0} /\ Len(open) \in Nat
    BY <1>1, SoundFacts, LevelsNow
  <2>2. Len(code) + 1 \in Nat
    BY <1>1, <2>1
  <2>3. QED
    BY <2>1, <2>2, Zenon
<1>3. /\ CompilerOK /\ OpenOK /\ Levels(lev) /\ Scoped(lev)
      /\ open \in Seq(Block) /\ lev[m] = l
      /\ code \in Seq(Instr) /\ h \subseteq 1 .. n
      /\ Waiting(open, scopes, lev, at)
      /\ Both(r) \in States /\ Both(r).live = r /\ Both(r).keyed = r
  BY <1>1, <1>2, SoundFacts, LevelsNow, BoundLive
<1>4. PICK c : c \in Seq(Instr) /\ c = Closed /\ Len(c) = k /\ Jumps(c, h)
  BY <1>2, LoopedJumps
<1>5. PICK f : Flow(c, h, f) /\ Continues(f, at, n, Both(r))
  BY <1>1, <1>2, <1>4, ExitSound
<1>6. f[k + 1] = Both(r) /\ \A e \in 1 .. k : f[e] = at[e]
  BY <1>2, <1>5 DEF Continues
<1>7. Counters(code) \subseteq Counters(c) /\ \A e \in 1 .. n : f[e] = at[e] /\ e \in 1 .. k
  <2>1. \A e \in 1 .. n : e \in 1 .. k
    BY <1>2
  <2>2. QED
    BY <1>1, <1>4, <1>6, <2>1, ExitSound
<1>8. PICK top : top = Last(open).head
  OBVIOUS
<1>9. ASSUME Last(open).kind # "block"
      PROVE  /\ top \in h /\ h \ {top} \subseteq Heads(open') /\ Heads(open') \subseteq h
             /\ top \in 1 .. n /\ f[top] = Both(r)
  <2>1. /\ top \in h /\ h \ {top} \subseteq Heads(Front(open))
        /\ Heads(Front(open)) \subseteq h
    BY <1>1, <1>2, <1>3, <1>8, <1>9, HeadsPop
  <2>2. top \in 1 .. n
    BY <1>3, <2>1
  <2>3. at[top] = Both(Bound(scopes, lev[Len(open)] - 1))
    BY <1>1, <1>3, <1>8, <1>9, WaitingPop
  <2>4. at[top] = Both(r)
    BY <1>2, <1>3, <2>3
  <2>5. QED
    BY <1>1, <1>7, <2>1, <2>2, <2>4
<1>10. CASE Last(open).kind = "block"
  <2>1. w = 1 /\ code' = c /\ Heads(open') = h
    BY <1>1, <1>2, <1>3, <1>4, <1>10, HeadsPop DEF Width
  <2>2. f[Len(code') + 1] = Both(Bound(scopes, l - w))
    BY <1>2, <1>4, <1>6, <2>1
  <2>3. QED
    BY <1>2, <1>5, <1>7, <2>1, <2>2
<1>11. CASE Last(open).kind \in {"if", "else"}
  <2>1. w = 1 /\ code' = Patch(c, top)
    BY <1>1, <1>4, <1>8, <1>11 DEF Width
  <2>2. /\ top \in h /\ h \ {top} \subseteq Heads(open') /\ Heads(open') \subseteq h
        /\ f[top] = Both(r)
    BY <1>9, <1>11
  <2>3. Flow(Patch(c, top), Heads(open'), f)
    BY <1>4, <1>5, <1>6, <2>2, FlowPatch
  <2>4. Len(Patch(c, top)) = k
    BY <1>4, <2>2, PatchedJumps
  <2>5. Counters(c) \subseteq Counters(Patch(c, top))
    <3>1. top \in DOMAIN c /\ c[top].op \in JumpOps
      BY <1>4, <2>2 DEF Jumps
    <3>2. QED
      BY <1>4, <3>1, CountersKept
  <2>6. f[Len(code') + 1] = Both(Bound(scopes, l - w))
    BY <1>2, <1>6, <2>1, <2>4
  <2>7. QED
    BY <1>2, <1>7, <2>1, <2>3, <2>5, <2>6
<1>12. CASE Last(open).kind \in {"while", "for"}
  <2>1. /\ top \in h /\ h \ {top} \subseteq Heads(open') /\ Heads(open') \subseteq h
        /\ f[top] = Both(r)
    BY <1>9, <1>12
  <2>2. PICK t, g : /\ t \in Seq(Instr) /\ t = Patch(Append(c, Jump(top)), top) /\ Len(t) = k + 1
                    /\ Jumps(t, Heads(open')) /\ Flow(t, Heads(open'), g)
                    /\ g[k + 2] = Both(r) /\ \A e \in 1 .. k : g[e] = f[e]
                    /\ Counters(c) \subseteq Counters(t)
    <3>1. k \in Nat /\ k = Len(c) /\ Jumps(c, h) /\ Flow(c, h, f)
      BY <1>2, <1>4, <1>5
    <3>2. /\ Both(r) \in States /\ Both(r).live = r /\ Both(r).keyed = r
          /\ f[k + 1] = Both(r) /\ f[top] = Both(r)
      BY <1>3, <1>6, <2>1
    <3>3. PICK left : left = Heads(open')
      OBVIOUS
    <3>4. top \in h /\ left \subseteq h /\ h \ {top} \subseteq left
      BY <2>1, <3>3
    <3>5. LoopMade(c, k, f, r, top, left)
      BY <3>1, <3>2, <3>4, LoopFlow
    <3>6. \E t, g : /\ t \in Seq(Instr) /\ t = Patch(Append(c, Jump(top)), top) /\ Len(t) = k + 1
                    /\ Jumps(t, left) /\ Flow(t, left, g)
                    /\ g[k + 2] = Both(r) /\ \A e \in 1 .. k : g[e] = f[e]
                    /\ Counters(c) \subseteq Counters(t)
      BY <3>5 DEF LoopMade
    <3>7. QED
      BY <3>3, <3>6
  <2>3. t = Patch(Looped, top)
    BY <1>4, <1>8, <2>2 DEF Looped
  <2>4. (\A e \in 1 .. n : g[e] = at[e]) /\ Counters(code) \subseteq Counters(t)
    BY <1>7, <2>2
  <2>5. CASE Last(open).kind = "while"
    <3>1. w = 1 /\ code' = t
      BY <1>1, <1>8, <2>3, <2>5 DEF Width
    <3>2. Len(t) + 1 = k + 2
      BY <1>2, <2>2
    <3>3. g[Len(code') + 1] = Both(Bound(scopes, l - w))
      BY <1>2, <2>2, <3>1, <3>2
    <3>4. QED
      BY <1>2, <2>2, <2>4, <3>1, <3>3
  <2>6. CASE Last(open).kind = "for"
    <3>1. PICK i : /\ i \in Instr /\ i = Exit({}, Ends(scopes[l - 1])) /\ i.op = "exit"
                   /\ i.release = {} /\ i.ends = Ends(scopes[l - 1])
                   /\ l - 1 \in 1 .. l
      <4>1. \E i \in Instr : /\ i = Exit({}, Ends(scopes[Len(scopes) - 1]))
                             /\ i.op = "exit"
                             /\ i.release = {} /\ i.ends = Ends(scopes[Len(scopes) - 1])
                             /\ Len(scopes) - 1 \in DOMAIN scopes
        BY <1>1, <2>6, LoopExitTyped
      <4>2. DOMAIN scopes = 1 .. l
        BY <1>2, <1>3, LenProperties DEF CompilerOK
      <4>3. QED
        BY <1>2, <4>1, <4>2
    <3>2. w = 2 /\ code' = Append(t, i)
      BY <1>1, <1>2, <1>8, <2>3, <2>6, <3>1 DEF Width
    <3>3. PICK v, j : /\ v = Bound(scopes, l - w) /\ v = r \ i.ends
                      /\ j \in Nat /\ j = k + 1 /\ j = Len(t)
      <4>1. Bound(scopes, (l - 1) - 1) = Bound(scopes, l - 1) \ Ends(scopes[l - 1])
        BY <1>2, <1>3, <3>1, ScopedFacts
      <4>2. (l - 1) - 1 = l - w
        BY <1>2, <3>2
      <4>3. Bound(scopes, l - w) = r \ i.ends
        BY <1>2, <3>1, <4>1, <4>2
      <4>4. k + 1 \in Nat
        BY <1>2
      <4>5. QED
        BY <2>2, <4>3, <4>4
    <3>4. /\ Both(v) \in States
          /\ Both(v) = [live |-> r \ i.ends, keyed |-> r \ (i.release \cup i.ends)]
      <4>1. Both(v) \in States
        BY <3>3, BoundLive
      <4>2. r \ (i.release \cup i.ends) = r \ i.ends
        BY <3>1
      <4>3. QED
        BY <3>3, <4>1, <4>2 DEF Both
    <3>5. g[j + 1] = Both(r) /\ g[j + 1].live = r /\ g[j + 1].keyed = r
      <4>1. j + 1 = k + 2
        BY <1>2, <3>3
      <4>2. QED
        BY <1>3, <2>2, <4>1
    <3>6. Counters(t) \subseteq Counters(Append(t, i)) /\ Len(Append(t, i)) = j + 1
      BY <2>2, <3>1, <3>3, CountersKept, Appended
    <3>7. i.ends \ i.release \subseteq Counters(Append(t, i))
      <4>1. i.ends \subseteq Counters(code)
        BY <1>1, <1>2, <1>3, <2>6, <3>1, CounterScope
      <4>2. QED
        BY <2>4, <3>6, <4>1
    <3>8. Effect(i, g[j + 1], Both(v), Counters(Append(t, i)))
      BY <3>1, <3>4, <3>5, <3>7, EffectIs
    <3>9. PICK up : Flow(Append(t, i), Heads(open'), up) /\ Continues(up, g, j, Both(v))
      BY <2>2, <3>1, <3>3, <3>4, <3>5, <3>8, PlainOps, FlowPlain
    <3>10. up[j + 2] = Both(v) /\ \A e \in 1 .. j + 1 : up[e] = g[e]
      BY <3>9 DEF Continues
    <3>11. \A e \in 1 .. n : up[e] = at[e]
      <4>1. \A e \in 1 .. n : e \in 1 .. j + 1
        BY <1>2, <3>3
      <4>2. QED
        BY <2>4, <3>10, <4>1
    <3>12. Len(code') + 1 = j + 2
      BY <3>2, <3>3, <3>6
    <3>13. QED
      BY <1>2, <2>4, <3>2, <3>3, <3>6, <3>9, <3>10, <3>11, <3>12
  <2>7. QED
    BY <1>12, <2>5, <2>6
<1>13. QED
  BY <1>1, <1>10, <1>11, <1>12

LEMMA CloseSound ==
    ASSUME TypeInv, NEW lev, NEW at, Sound(lev, at), Close
    PROVE  \E up : Sound(lev, up)'
<1>1. PICK w, n, l : /\ w = Width(Last(open).kind) /\ w \in {1, 2} /\ n \in Nat /\ n = Len(code)
                     /\ l \in Nat \ {0} /\ l = Len(scopes)
                     /\ l - w \in Nat \ {0} /\ Len(open) > 0 /\ status = "compiling"
  <2>1. status = "compiling" /\ Len(open) > 0
    BY CloseFacts
  <2>2. /\ Len(code) \in Nat /\ Len(scopes) \in Nat \ {0}
        /\ Len(scopes) - Width(Last(open).kind) \in Nat \ {0}
    BY <2>1, SoundFacts, LevelsNow
  <2>3. Width(Last(open).kind) \in {1, 2}
    BY DEF Width
  <2>4. QED
    BY <2>1, <2>2, <2>3, Zenon
<1>2. /\ open' = Front(open)
      /\ scopes' = SubSeq(scopes, 1, l - w)
      /\ block_locals' = Front(block_locals)
      /\ UNCHANGED <<variables, function_locals, declared>>
  BY <1>1, CloseFacts
<1>3. /\ CompilerOK /\ OpenOK /\ Levels(lev) /\ Scoped(lev)
      /\ open \in Seq(Block) /\ LevelsOf(lev, open, l)
      /\ Heads(open) \subseteq 1 .. n
      /\ Waiting(open, scopes, lev, at)
  BY <1>1, SoundFacts, LevelsNow
<1>4. PICK up : /\ Flow(code', Heads(open'), up)
                /\ up[Len(code') + 1] = Both(Bound(scopes, l - w))
                /\ \A e \in 1 .. n : up[e] = at[e]
                /\ Counters(code) \subseteq Counters(code')
  BY <1>1, CloseFlow
<1>5. PICK j, sc : /\ j \in Nat \ {0} /\ j = l - w /\ j <= l /\ sc = scopes'
                   /\ Len(sc) = j /\ \A i \in 1 .. j : sc[i] = scopes[i]
  <2>1. PICK j : j \in Nat \ {0} /\ j = l - w /\ j <= l
    BY <1>1
  <2>2. scopes \in Seq(Scope) /\ j \in Nat /\ j <= Len(scopes)
    BY <1>1, <1>3, <2>1 DEF CompilerOK
  <2>3. /\ Len(SubSeq(scopes, 1, j)) = j
        /\ \A i \in 1 .. j : SubSeq(scopes, 1, j)[i] = scopes[i]
    BY <2>2, CutIs
  <2>4. QED
    BY <1>2, <2>1, <2>3
<1>6. Bound(sc, j) = Bound(scopes, j)
  BY <1>5, BoundSame
<1>7. PICK o : /\ o \in Seq(Block) /\ o = Front(open) /\ LevelsOf(lev, o, j)
               /\ Heads(o) \subseteq 1 .. n /\ Waiting(o, scopes, lev, at)
  <2>1. open \in Seq(Block) /\ Len(open) > 0
    BY <1>1, <1>3
  <2>2. Front(open) \in Seq(Block)
    BY <2>1, FrontIs
  <2>3. LevelsOf(lev, Front(open), j)
    BY <1>1, <1>3, <1>5, LevelsPop
  <2>4. Heads(Front(open)) \subseteq 1 .. n
    BY <1>3, <2>1, HeadsPop
  <2>5. Waiting(Front(open), scopes, lev, at)
    BY <1>3, <2>1, WaitingPop
  <2>6. QED
    BY <2>2, <2>3, <2>4, <2>5
<1>8. Waiting(o, sc, lev, up)
  <2>1. \A i \in 1 .. j - 1, x \in Names : sc[i][x] = scopes[i][x]
    <3>1. \A i \in 1 .. j - 1 : i \in 1 .. j
      BY <1>5
    <3>2. QED
      BY <1>5, <3>1
  <2>2. n \in Nat /\ \A e \in 1 .. n : up[e] = at[e]
    BY <1>1, <1>4
  <2>3. Heads(o) \subseteq 1 .. n
    BY <1>7
  <2>4. o \in Seq(Block) /\ LevelsOf(lev, o, j) /\ Waiting(o, scopes, lev, at)
    BY <1>7
  <2>5. QED
    BY <2>1, <2>2, <2>3, <2>4, WaitingKept
<1>9. Scoped(lev)'
  BY <1>1, <1>2, <1>3, <1>4, ScopedClose
<1>10. Sound(lev, up)'
  <2>1. Levels(lev)'
    BY <1>2, <1>5, <1>7 DEF Levels
  <2>2. PICK q : q = Len(code')
    OBVIOUS
  <2>3. up[q + 1] = Both(Bound(scopes', j)) /\ j = Len(scopes')
    BY <1>4, <1>5, <1>6, <2>2
  <2>4. Waiting(open', scopes', lev, up)
    BY <1>2, <1>5, <1>7, <1>8
  <2>5. QED
    BY <1>4, <1>9, <2>1, <2>2, <2>3, <2>4, SoundMade
<1>11. QED
  BY <1>10

\* The function begins with nothing alive.
LEMMA AgreesAtStart ==
    ASSUME Keys, NEW c, NEW heads, NEW up, Flow(c, heads, up), status \in {"compiling", "returned"},
           pc' = 1, UNCHANGED <<alive, keyTable>>, Counters(code) \subseteq Counters(code')
    PROVE  Agrees(up)'
<1>1. up[1].live = {} /\ up[1].keyed = {}
  BY DEF Flow, Both
<1>2. \A d \in Decls : alive[d] = Dead /\ (keyTable[d] = NoKey \/ d \in Counters(code))
  BY DEF Keys, Keyless
<1>3. QED
  BY <1>1, <1>2 DEF Agrees, Keyless

LEMMA FinishSound ==
    ASSUME TypeInv, Keys, NEW lev, NEW at, Sound(lev, at), Finish
    PROVE  \E up : Sound(lev, up)' /\ Agrees(up)'
<1>1. PICK r \in Instr, t \in Instr :
         /\ status = "compiling" /\ open = <<>> /\ status' = "running"
         /\ r.op = "exit" /\ r.release = Allocas(function_locals) /\ r.ends = {}
         /\ t.op = "ret"
         /\ code' = Append(Append(Closed, r), t)
         /\ UNCHANGED <<scopes, open, variables, block_locals, function_locals, declared,
                        stmts>>
         /\ UNCHANGED <<pc, frame, library, cell, result, lives, calls>>
  BY FinishFacts
<1>2. PICK n, h, k, j : /\ n \in Nat /\ n = Len(code) /\ h = Heads(open)
                        /\ k \in Nat /\ k = n + 1 /\ j \in Nat /\ j = k + 1
  <2>1. Len(code) \in Nat
    BY <1>1, SoundFacts
  <2>2. Len(code) + 1 \in Nat /\ (Len(code) + 1) + 1 \in Nat
    BY <2>1
  <2>3. QED
    BY <2>1, <2>2, Zenon
<1>3. Bound(scopes, Len(scopes) - 1) = {}
  <2>1. Len(open) = 0
    BY <1>1
  <2>2. Len(scopes) = 1
    BY <1>1, <2>1, SoundFacts, LevelsNow
  <2>3. QED
    BY <2>2 DEF Bound
<1>4. PICK s : s = Both({}) /\ s \in States /\ s.live = {} /\ s.keyed = {}
  BY <1>3, BoundLive
<1>5. PICK c : c \in Seq(Instr) /\ c = Closed /\ Len(c) = k /\ Jumps(c, h)
               /\ Counters(code) \subseteq Counters(c)
  BY <1>1, <1>2, LoopedJumps, ExitSound
<1>6. PICK f : Flow(c, h, f) /\ f[k + 1] = s
  <2>1. PICK f : Flow(Closed, Heads(open), f) /\ Continues(f, at, n, Both({}))
    BY <1>1, <1>2, <1>3, ExitSound
  <2>2. f[n + 2] = Both({}) /\ n + 2 = k + 1
    BY <1>2, <2>1 DEF Continues
  <2>3. QED
    BY <1>2, <1>4, <1>5, <2>1, <2>2
<1>7. PICK e : e \in Seq(Instr) /\ e = Append(c, r) /\ Len(e) = j /\ Jumps(e, h)
               /\ Counters(c) \subseteq Counters(e)
  <2>1. r.op \notin JumpOps
    BY <1>1, PlainOps
  <2>2. /\ Jumps(Append(c, r), h) /\ Append(c, r) \in Seq(Instr)
        /\ Len(Append(c, r)) = Len(c) + 1
    BY <1>5, <2>1, JumpsPlain
  <2>3. Counters(c) \subseteq Counters(Append(c, r))
    BY <1>5, CountersKept
  <2>4. QED
    BY <1>2, <1>5, <2>2, <2>3
<1>8. PICK g : Flow(e, h, g) /\ g[j + 1] = s
  <2>1. s = [live |-> f[k + 1].live \ r.ends,
             keyed |-> f[k + 1].keyed \ (r.release \cup r.ends)]
    <3>1. f[k + 1].live \ r.ends = {} /\ f[k + 1].keyed \ (r.release \cup r.ends) = {}
      BY <1>4, <1>6
    <3>2. s = [live |-> {}, keyed |-> {}]
      BY <1>4 DEF Both
    <3>3. QED
      BY <3>1, <3>2
  <2>2. Effect(r, f[k + 1], s, Counters(Append(c, r)))
    BY <1>1, <2>1, EffectIs
  <2>3. PICK g : Flow(Append(c, r), h, g) /\ Continues(g, f, k, s)
    BY <1>1, <1>2, <1>4, <1>5, <1>6, <2>2, PlainOps, FlowPlain
  <2>4. g[k + 2] = s /\ k + 2 = j + 1
    BY <1>2, <2>3 DEF Continues
  <2>5. QED
    BY <1>7, <2>3, <2>4
<1>9. PICK up : Flow(Append(e, t), h, up) /\ Continues(up, g, j, s)
  <2>1. Effect(t, g[j + 1], s, Counters(Append(e, t)))
    BY <1>1, <1>4, <1>8, EffectIs
  <2>2. QED
    BY <1>1, <1>2, <1>4, <1>7, <1>8, <2>1, PlainOps, FlowPlain
<1>10. code' = Append(e, t) /\ Counters(code) \subseteq Counters(code')
  BY <1>1, <1>5, <1>7, CountersKept
<1>11. Flow(code', Heads(open'), up)
  BY <1>1, <1>2, <1>9, <1>10
<1>12. Sound(lev, up)'
  <2>1. Scoped(lev)'
    BY <1>1, <1>10, SoundFacts, ScopedSame
  <2>2. Levels(lev)'
    BY <1>1 DEF Sound, Levels
  <2>3. Reached(lev, up)'
    BY <1>1 DEF Reached
  <2>4. QED
    BY <1>11, <2>1, <2>2, <2>3 DEF Sound
<1>13. Agrees(up)'
  <2>1. pc = 1 /\ status = "compiling"
    BY <1>1 DEF TypeInv, Stage, Ended
  <2>2. pc' = 1 /\ UNCHANGED <<alive, keyTable>>
    BY <1>1, <2>1 DEF lives, library
  <2>3. QED
    BY <1>10, <1>11, <2>1, <2>2, AgreesAtStart
<1>14. QED
  BY <1>12, <1>13

-----------------------------------------------------------------------------
(* Every step of the compiler *)

LEMMA CompileSound ==
    ASSUME TypeInv, ~Shadowing, Keys, NEW lev, NEW at, Sound(lev, at), Compiling
    PROVE  \E hi, up : Sound(hi, up)' /\ Agrees(up)'
<1>1. ASSUME NEW hi, NEW up, Sound(hi, up)', status' # "running"
      PROVE  \E j, f : Sound(j, f)' /\ Agrees(f)'
  <2>1. Agrees(up)'
    BY <1>1 DEF Agrees
  <2>2. QED
    BY <1>1, <2>1
<1>2. ASSUME status' = status, status = "compiling", \E hi, up : Sound(hi, up)'
      PROVE  \E hi, up : Sound(hi, up)' /\ Agrees(up)'
  BY <1>1, <1>2
<1>3. CASE Expr
  <2>1. status = "compiling" /\ status' = status
    BY <1>3 DEF Expr, Compile
  <2>2. QED
    BY <1>2, <1>3, <2>1, ExprSound
<1>4. ASSUME NEW kind \in {"block", "if", "while"}, NEW instrs,
             kind = "block" => instrs = <<>>, kind # "block" => instrs = <<Branch>>,
             OpenBlock(kind, instrs)
      PROVE  \E hi, up : Sound(hi, up)' /\ Agrees(up)'
  <2>1. status = "compiling" /\ status' = status
    BY <1>4 DEF OpenBlock, Compile
  <2>2. QED
    BY <1>2, <1>4, <2>1, OpenSound
<1>5. CASE Compound
  BY <1>4, <1>5 DEF Compound
<1>6. CASE If
  BY <1>4, <1>6 DEF If
<1>7. CASE While
  BY <1>4, <1>7 DEF While
<1>8. CASE Else
  BY <1>2, <1>8, ElseFacts, ElseSound
<1>9. CASE Close
  BY <1>2, <1>9, CloseFacts, CloseSound
<1>10. CASE Return
  <2>1. status = "compiling" /\ status' = status
    BY <1>10 DEF Return, Compile
  <2>2. QED
    BY <1>2, <1>10, <2>1, ReturnSound
<1>11. CASE Finish
  BY <1>11, FinishSound
<1>12. CASE Reject
  <2>1. UNCHANGED compiler /\ status' = "rejected"
    BY <1>12 DEF Reject
  <2>2. Sound(lev, at)'
    BY <2>1 DEF Sound, Levels, Scoped, Reached, compiler
  <2>3. QED
    BY <1>1, <2>1, <2>2
<1>13. ASSUME NEW n \in Names, Decl(n)
       PROVE  \E hi, up : Sound(hi, up)' /\ Agrees(up)'
  BY <1>2, <1>13, DeclFacts, DeclSound
<1>14. ASSUME NEW n \in Ints, For(n)
       PROVE  \E hi, up : Sound(hi, up)' /\ Agrees(up)'
  BY <1>2, <1>14, ForFacts, ForSound
<1>15. QED
  BY <1>3, <1>5, <1>6, <1>7, <1>8, <1>9, <1>10, <1>11, <1>12, <1>13, <1>14 DEF Compiling

\* The keys and the frame are those of the beginning while the function is compiled.
LEMMA CompileKeys ==
    ASSUME TypeInv, Keys, Compiling
    PROVE  Keys'
<1>1. /\ UNCHANGED <<frame, library, cell, result, lives>>
      /\ status = "compiling" /\ status' \in {"compiling", "running", "rejected"}
  <2>1. ASSUME status = "compiling",
               UNCHANGED <<status, pc, frame, library, cell, result, lives, calls>>
        PROVE  /\ UNCHANGED <<frame, library, cell, result, lives>>
               /\ status = "compiling" /\ status' \in {"compiling", "running", "rejected"}
    BY <2>1
  <2>2. \A form : Compile(form) => /\ status = "compiling"
                                  /\ UNCHANGED <<status, pc, frame, library, cell, result, lives,
                                                 calls>>
    BY DEF Compile
  <2>3. CASE Expr \/ Return \/ (\E n \in Names : Decl(n)) \/ (\E n \in Ints : For(n))
    BY <2>1, <2>2, <2>3, Zenon DEF Expr, Return, Decl, For
  <2>4. CASE Compound \/ If \/ While
    BY <2>1, <2>2, <2>4, Zenon DEF Compound, If, While, OpenBlock
  <2>5. CASE Else
    BY <2>1, <2>5, ElseFacts
  <2>6. CASE Close
    BY <2>1, <2>6, CloseFacts
  <2>7. CASE Finish \/ Reject
    BY <2>7 DEF Finish, Reject
  <2>8. QED
    BY <2>3, <2>4, <2>5, <2>6, <2>7 DEF Compiling
<1>2. UNCHANGED <<keySlot, pointer, nextKey, keyTable, cell, result, alive, births>>
  BY <1>1 DEF frame, library, lives
<1>3. QED
  BY <1>1, <1>2 DEF Keys, Keyless, Tracked

-----------------------------------------------------------------------------
(* Every step of the program *)

\* What is known of the instruction at pc.
LEMMA StateAtPc ==
    ASSUME TypeInv, NEW lev, NEW at, Sound(lev, at), Agrees(at), status = "running"
    PROVE  /\ code[pc] \in Instr
           /\ Effect(code[pc], at[pc], at[pc + 1], Counters(code))
           /\ code[pc].op \in JumpOps => at[code[pc].to] = at[pc]
           /\ at[pc].keyed \subseteq at[pc].live
           /\ at[pc].live \subseteq Decls
           /\ \A d \in Decls : /\ alive[d] # Dead <=> d \in at[pc].live
                               /\ d \in at[pc].keyed => keyTable[d] = alive[d]
                               /\ d \notin at[pc].keyed => Keyless(d)
<1>1. pc \in DOMAIN code /\ code[pc] \in Instr
  BY NextInstruction
<1>2. Heads(open) = {} /\ pc \in Nat
  <2>1. open = <<>>
    BY DEF TypeInv, Stage
  <2>2. DOMAIN code = 1 .. Len(code)
    BY LenProperties DEF TypeInv, Jumps
  <2>3. QED
    BY <1>1, <2>1, <2>2, NoHeads
<1>3. Flow(code, {}, at)
  BY <1>2 DEF Sound
<1>4. at[pc] \in States
  BY <1>2, <1>3 DEF Flow
<1>5. QED
  BY <1>1, <1>3, <1>4 DEF Flow, Agrees, States

\* A step of the program that keeps what is sound keeps it.
LEMMA RunKept ==
    ASSUME NEW lev, NEW at, Sound(lev, at), UNCHANGED compiler, status' # "compiling"
    PROVE  Sound(lev, at)' /\ Counters(code') = Counters(code)
<1>1. UNCHANGED <<scopes, open, variables, block_locals, function_locals, declared, code>>
  BY DEF compiler
<1>2. Reached(lev, at)'
  BY DEF Reached
<1>3. Levels(lev)' /\ Scoped(lev)' /\ Flow(code', Heads(open'), at)
  BY <1>1 DEF Sound, Levels, Scoped
<1>4. QED
  BY <1>1, <1>2, <1>3 DEF Sound

LEMMA DeclareKept ==
    ASSUME TypeInv, Keys, NEW lev, NEW at, Sound(lev, at), Agrees(at), RunDeclare
    PROVE  Keys' /\ Agrees(at)'
<1>1. PICK i : i = code[pc]
  OBVIOUS
<1>2. PICK d : d = i.var
  OBVIOUS
<1>3. /\ status = "running" /\ i.op = "declare" /\ nextKey' = nextKey + 1
      /\ keySlot' = [keySlot EXCEPT ![d] = nextKey]
      /\ keyTable' = [keyTable EXCEPT ![d] = nextKey]
      /\ pointer' = [pointer EXCEPT ![d] = NullPtr]
      /\ births' = births + 1
      /\ alive' = [alive EXCEPT ![d] = births + 1]
      /\ pc' = pc + 1 /\ UNCHANGED compiler
      /\ UNCHANGED <<status, cell, result>>
  BY <1>1, <1>2 DEF RunDeclare, At, Advance
<1>4. /\ d \in Decls /\ Effect(i, at[pc], at[pc + 1], Counters(code))
      /\ \A e \in Decls : /\ alive[e] # Dead <=> e \in at[pc].live
                          /\ e \in at[pc].keyed => keyTable[e] = alive[e]
                          /\ e \notin at[pc].keyed => Keyless(e)
  BY <1>1, <1>2, <1>3, StateAtPc, InstrTyped
<1>5. at[pc + 1] = [live |-> at[pc].live \cup {d}, keyed |-> at[pc].keyed \cup {d}]
  <2>1. i \in Instr
    BY <1>1, <1>3, StateAtPc
  <2>2. PICK a, b, cs : a = at[pc] /\ b = at[pc + 1] /\ cs = Counters(code)
    OBVIOUS
  <2>3. Effect(i, a, b, cs) /\ i.op = "declare"
    BY <1>3, <1>4, <2>2
  <2>4. b = [live |-> a.live \cup {i.var}, keyed |-> a.keyed \cup {i.var}]
    BY <2>1, <2>3, EffectIs
  <2>5. QED
    BY <1>2, <2>2, <2>4
<1>6. PICK k : k = births + 1 /\ k = nextKey /\ k # Dead /\ k # NoKey /\ nextKey' = births' + 1
  BY <1>3 DEF Keys, TypeInv, FrameOK, Dead, NoKey
<1>7. \A e \in Decls : /\ alive'[e] = IF e = d THEN k ELSE alive[e]
                       /\ keyTable'[e] = IF e = d THEN k ELSE keyTable[e]
                       /\ keySlot'[e] = IF e = d THEN k ELSE keySlot[e]
                       /\ pointer'[e] = IF e = d THEN NullPtr ELSE pointer[e]
  BY <1>3, <1>4, <1>6 DEF TypeInv, FrameOK
<1>8. Counters(code') = Counters(code)
  BY <1>3, RunKept
<1>9. Keys'
  <2>1. \A e \in Decls : alive'[e] = Dead => keyTable'[e] = NoKey \/ e \in Counters(code')
    BY <1>6, <1>7, <1>8 DEF Keys, Keyless
  <2>2. \A e \in Decls :
           alive'[e] # Dead => keySlot'[e] = alive'[e] /\ keyTable'[e] \in {alive'[e], NoKey}
    BY <1>7 DEF Keys
  <2>3. \A e \in Decls : Tracked(pointer'[e])
    BY <1>7 DEF Keys, Tracked, NullPtr
  <2>4. QED
    BY <1>3, <1>6, <2>1, <2>2, <2>3 DEF Keys, Keyless, Tracked
<1>10. Agrees(at)'
  BY <1>3, <1>4, <1>5, <1>6, <1>7, <1>8 DEF Agrees, Keyless
<1>11. QED
  BY <1>9, <1>10

LEMMA ExitKept ==
    ASSUME TypeInv, Keys, NEW lev, NEW at, Sound(lev, at), Agrees(at), RunExit
    PROVE  Keys' /\ Agrees(at)'
<1>1. PICK i : i = code[pc]
  OBVIOUS
<1>2. /\ status = "running" /\ i.op = "exit"
      /\ keyTable' = [d \in Decls |-> IF d \in i.release THEN NoKey ELSE keyTable[d]]
      /\ alive' = [d \in Decls |-> IF d \in i.ends THEN Dead ELSE alive[d]]
      /\ pc' = pc + 1 /\ UNCHANGED compiler
      /\ UNCHANGED <<status, frame, nextKey, cell, result, births>>
  BY <1>1 DEF RunExit, At, Advance
<1>3. /\ Effect(i, at[pc], at[pc + 1], Counters(code))
      /\ \A d \in Decls : /\ alive[d] # Dead <=> d \in at[pc].live
                          /\ d \in at[pc].keyed => keyTable[d] = alive[d]
                          /\ d \notin at[pc].keyed => Keyless(d)
  BY <1>1, <1>2, StateAtPc
<1>4. /\ at[pc + 1] = [live |-> at[pc].live \ i.ends,
                       keyed |-> at[pc].keyed \ (i.release \cup i.ends)]
      /\ i.ends \ i.release \subseteq Counters(code)
  <2>1. i \in Instr
    BY <1>1, <1>2, StateAtPc
  <2>2. PICK a, b, cs : a = at[pc] /\ b = at[pc + 1] /\ cs = Counters(code)
    OBVIOUS
  <2>3. Effect(i, a, b, cs) /\ i.op = "exit"
    BY <1>2, <1>3, <2>2
  <2>4. /\ b = [live |-> a.live \ i.ends, keyed |-> a.keyed \ (i.release \cup i.ends)]
        /\ i.ends \ i.release \subseteq cs
    BY <2>1, <2>3, EffectIs
  <2>5. QED
    BY <2>2, <2>4
<1>5. Counters(code') = Counters(code)
  BY <1>2, RunKept
<1>6. \A d \in Decls : /\ alive'[d] = IF d \in i.ends THEN Dead ELSE alive[d]
                       /\ keyTable'[d] = IF d \in i.release THEN NoKey ELSE keyTable[d]
  BY <1>2
<1>7. Keys'
  <2>1. \A d \in Decls : alive'[d] = Dead => keyTable'[d] = NoKey \/ d \in Counters(code')
    BY <1>4, <1>5, <1>6 DEF Keys, Keyless
  <2>2. \A d \in Decls :
           alive'[d] # Dead => keySlot'[d] = alive'[d] /\ keyTable'[d] \in {alive'[d], NoKey}
    BY <1>2, <1>6 DEF Keys, frame
  <2>3. UNCHANGED <<nextKey, births, pointer, cell, status>> /\ status = "running"
    BY <1>2 DEF frame
  <2>4. QED
    BY <2>1, <2>2, <2>3 DEF Keys, Keyless, Tracked
<1>8. Agrees(at)'
  <2>1. ASSUME NEW d \in Decls
        PROVE  /\ alive'[d] # Dead <=> d \in at[pc + 1].live
               /\ d \in at[pc + 1].keyed => keyTable'[d] = alive'[d]
               /\ d \notin at[pc + 1].keyed => keyTable'[d] = NoKey \/ d \in Counters(code)
    BY <1>3, <1>4, <1>6 DEF Keyless
  <2>2. QED
    BY <1>2, <1>5, <2>1 DEF Agrees, Keyless
<1>9. QED
  BY <1>7, <1>8

\* A step that moves the program on and leaves keys and variables as they are.
LEMMA MoveKept ==
    ASSUME TypeInv, Keys, NEW lev, NEW at, Sound(lev, at), Agrees(at),
           status = "running", UNCHANGED <<status, keySlot, library, lives>>, UNCHANGED compiler,
           at[pc'] = at[pc],
           \A d \in Decls : Tracked(pointer'[d]), Tracked(cell')
    PROVE  Keys' /\ Agrees(at)'
<1>1. UNCHANGED <<status, keySlot, nextKey, keyTable, alive, births>>
  BY DEF library, lives
<1>2. Counters(code') = Counters(code)
  BY RunKept
<1>3. Keys'
  BY <1>1, <1>2 DEF Keys, Keyless, Tracked
<1>4. Agrees(at)'
  BY <1>1, <1>2 DEF Agrees, Keyless
<1>5. QED
  BY <1>3, <1>4

LEMMA AssignKept ==
    ASSUME TypeInv, Keys, NEW lev, NEW at, Sound(lev, at), Agrees(at), RunAssign
    PROVE  Keys' /\ Agrees(at)'
<1>1. PICK i : i = code[pc]
  OBVIOUS
<1>2. /\ status = "running" /\ i.op \in {"addr", "copy", "load"}
      /\ pc' = pc + 1 /\ UNCHANGED compiler
      /\ UNCHANGED <<status, keySlot, library, cell, result, lives>>
  BY <1>1 DEF RunAssign, At, Advance
<1>3. /\ i \in Instr /\ Effect(i, at[pc], at[pc + 1], Counters(code))
      /\ \A d \in Decls : alive[d] # Dead <=> d \in at[pc].live
  BY <1>1, <1>2, StateAtPc
<1>4. at[pc'] = at[pc] /\ (i.op = "addr" => i.var \in at[pc].live)
  BY <1>2, <1>3, EffectIs
<1>5. PICK v : Tracked(v) /\ pointer' = [pointer EXCEPT ![i.ptr] = v]
  <2>1. CASE i.op = "addr"
    <3>1. PICK d \in Decls : d = i.var /\ d \in at[pc].live
      BY <1>3, <1>4, <2>1, InstrTyped
    <3>2. PICK k \in KeyIn(d) :
             pointer' = [pointer EXCEPT ![i.ptr] = [to |-> d, key |-> k, of |-> alive[d]]]
      BY <1>1, <2>1, <3>1 DEF RunAssign, At, Point
    <3>3. alive[d] # Dead /\ keySlot[d] = alive[d]
      BY <1>3, <3>1 DEF Keys
    <3>4. keySlot[d] # Junk
      <4>1. alive[d] \in Nat
        BY DEF TypeInv, FrameOK
      <4>2. QED
        BY <3>3, <4>1 DEF Junk
    <3>5. k = alive[d]
      BY <3>2, <3>3, <3>4 DEF KeyIn
    <3>6. Tracked([to |-> d, key |-> k, of |-> alive[d]])
      BY <3>3, <3>5 DEF Tracked
    <3>7. QED
      BY <3>2, <3>6
  <2>2. CASE i.op = "copy"
    <3>1. i.from \in Decls
      BY <1>3, <2>2, InstrTyped
    <3>2. pointer' = [pointer EXCEPT ![i.ptr] = pointer[i.from]]
      BY <1>1, <2>2 DEF RunAssign, At, Point
    <3>3. Tracked(pointer[i.from])
      BY <3>1 DEF Keys
    <3>4. QED
      BY <3>2, <3>3
  <2>3. CASE i.op = "load"
    <3>1. pointer' = [pointer EXCEPT ![i.ptr] = cell]
      BY <1>1, <2>3 DEF RunAssign, At, Point
    <3>2. QED
      BY <3>1 DEF Keys
  <2>4. QED
    BY <1>2, <2>1, <2>2, <2>3
<1>6. \A d \in Decls : Tracked(pointer'[d])
  <2>1. ASSUME NEW d \in Decls PROVE pointer'[d] = v \/ pointer'[d] = pointer[d]
    BY <1>5 DEF TypeInv, FrameOK
  <2>2. QED
    BY <1>5, <2>1 DEF Keys
<1>7. Tracked(cell')
  BY <1>2 DEF Keys
<1>8. QED
  BY <1>2, <1>4, <1>6, <1>7, MoveKept

LEMMA RunSound ==
    ASSUME TypeInv, Keys, NEW lev, NEW at, Sound(lev, at), Agrees(at), Running
    PROVE  Keys' /\ Sound(lev, at)' /\ Agrees(at)'
<1>1. ASSUME UNCHANGED compiler, status' # "compiling", Keys', Agrees(at)'
      PROVE  Keys' /\ Sound(lev, at)' /\ Agrees(at)'
  BY <1>1, RunKept
<1>2. CASE RunDeclare
  <2>1. UNCHANGED compiler /\ status' # "compiling"
    BY <1>2 DEF RunDeclare, At, Advance
  <2>2. QED
    BY <1>1, <1>2, <2>1, DeclareKept
<1>3. CASE RunAssign
  <2>1. UNCHANGED compiler /\ status' # "compiling"
    BY <1>3 DEF RunAssign, At, Advance
  <2>2. QED
    BY <1>1, <1>3, <2>1, AssignKept
<1>4. CASE RunSave
  <2>1. /\ status = "running" /\ status' # "compiling" /\ code[pc].op = "save"
        /\ pc' = pc + 1 /\ UNCHANGED compiler
        /\ cell' = pointer[code[pc].ptr]
        /\ UNCHANGED <<status, keySlot, library, lives>> /\ UNCHANGED pointer
    BY <1>4 DEF RunSave, At, Advance, frame
  <2>2. code[pc] \in Instr /\ Effect(code[pc], at[pc], at[pc + 1], Counters(code))
    BY <2>1, StateAtPc
  <2>3. at[pc'] = at[pc] /\ code[pc].ptr \in Decls
    BY <2>1, <2>2, EffectIs, InstrTyped
  <2>4. Tracked(cell') /\ \A d \in Decls : Tracked(pointer'[d])
    BY <2>1, <2>3 DEF Keys
  <2>5. Keys' /\ Agrees(at)'
    BY <2>1, <2>3, <2>4, MoveKept
  <2>6. QED
    BY <1>1, <2>1, <2>5
<1>5. CASE RunDeref
  <2>1. /\ status = "running" /\ code[pc].op = "deref" /\ UNCHANGED compiler
        /\ UNCHANGED <<keySlot, library, lives, pointer, cell>>
        /\ \/ pc' = pc + 1 /\ UNCHANGED status
           \/ status' = "aborted"
    BY <1>5 DEF RunDeref, At, Advance, frame
  <2>2. CASE pc' = pc + 1 /\ UNCHANGED status
    <3>1. code[pc] \in Instr /\ Effect(code[pc], at[pc], at[pc + 1], Counters(code))
      BY <2>1, StateAtPc
    <3>2. at[pc'] = at[pc]
      BY <2>1, <2>2, <3>1, EffectIs
    <3>3. Tracked(cell') /\ \A d \in Decls : Tracked(pointer'[d])
      BY <2>1 DEF Keys
    <3>4. Keys' /\ Agrees(at)'
      BY <2>1, <2>2, <3>2, <3>3, MoveKept
    <3>5. QED
      BY <1>1, <2>1, <2>2, <3>4
  <2>3. CASE status' = "aborted"
    <3>1. Agrees(at)'
      BY <2>3 DEF Agrees
    <3>2. Keys'
      BY <2>1, <2>3, RunKept DEF Keys, Keyless, Tracked, library, lives
    <3>3. QED
      BY <1>1, <2>1, <2>3, <3>1, <3>2
  <2>4. QED
    BY <2>1, <2>2, <2>3
<1>6. CASE RunBranch
  <2>1. /\ status = "running" /\ status' # "compiling" /\ code[pc].op \in JumpOps
        /\ pc' = pc + 1 \/ pc' = code[pc].to
        /\ UNCHANGED compiler
        /\ UNCHANGED <<status, keySlot, library, lives>> /\ UNCHANGED <<pointer, cell>>
    BY <1>6 DEF RunBranch, At, frame, JumpOps
  <2>2. /\ code[pc] \in Instr /\ Effect(code[pc], at[pc], at[pc + 1], Counters(code))
        /\ at[code[pc].to] = at[pc]
    BY <2>1, StateAtPc
  <2>3. at[pc'] = at[pc]
    BY <2>1, <2>2, EffectOfJump
  <2>4. Tracked(cell') /\ \A d \in Decls : Tracked(pointer'[d])
    BY <2>1 DEF Keys
  <2>5. Keys' /\ Agrees(at)'
    BY <2>1, <2>3, <2>4, MoveKept
  <2>6. QED
    BY <1>1, <2>1, <2>5
<1>7. CASE RunExit
  <2>1. UNCHANGED compiler /\ status' # "compiling"
    BY <1>7 DEF RunExit, At, Advance
  <2>2. QED
    BY <1>1, <1>7, <2>1, ExitKept
<1>8. CASE RunRet
  <2>1. PICK p : p = code[pc].ptr
    OBVIOUS
  <2>2. /\ status = "running" /\ code[pc].op = "ret" /\ status' = "returned"
        /\ result' = IF p = None THEN NullPtr ELSE [pointer[p] EXCEPT !.key = NoKey]
        /\ alive' = [d \in Decls |-> Dead]
        /\ pointer' = [d \in Decls |-> NullPtr]
        /\ UNCHANGED compiler /\ UNCHANGED <<nextKey, keyTable, cell, births>>
    BY <1>8, <2>1 DEF RunRet, At, library
  <2>3. /\ code[pc] \in Instr /\ Effect(code[pc], at[pc], at[pc + 1], Counters(code))
        /\ \A d \in Decls : d \notin at[pc].keyed => Keyless(d)
    BY <2>2, StateAtPc
  <2>4. \A d \in Decls : Keyless(d)
    BY <2>2, <2>3, EffectIs
  <2>5. result'.key = NoKey
    <3>1. CASE p = None
      BY <2>2, <3>1 DEF NullPtr
    <3>2. CASE p # None
      <4>1. p \in Decls
        BY <2>1, <2>2, <2>3, <3>2, InstrTyped DEF Targets
      <4>2. pointer[p] \in Pointer
        BY <4>1 DEF TypeInv, FrameOK
      <4>3. QED
        BY <2>2, <3>2, <4>2 DEF Pointer
    <3>3. QED
      BY <3>1, <3>2
  <2>6. Keys'
    <3>1. \A d \in Decls : alive'[d] = Dead /\ pointer'[d] = NullPtr
      BY <2>2
    <3>2. Counters(code') = Counters(code)
      BY <2>2, RunKept
    <3>3. \A d \in Decls : Keyless(d)'
      BY <2>2, <2>4, <3>2 DEF Keyless
    <3>4. \A d \in Decls : Tracked(pointer'[d])
      BY <3>1 DEF Tracked, NullPtr
    <3>5. Tracked(cell') /\ nextKey' = births' + 1
      BY <2>2 DEF Keys
    <3>6. QED
      BY <2>2, <2>5, <3>1, <3>3, <3>4, <3>5 DEF Keys, Tracked
  <2>7. Agrees(at)'
    BY <2>2 DEF Agrees
  <2>8. QED
    BY <1>1, <2>2, <2>6, <2>7
<1>9. CASE Call
  <2>1. /\ status = "returned" /\ status' = "running" /\ pc' = 1
        /\ UNCHANGED compiler
        /\ UNCHANGED <<nextKey, keyTable, keySlot, pointer, cell, alive, births>>
    BY <1>9 DEF Call, frame, library, lives
  <2>2. Counters(code') = Counters(code)
    BY <2>1, RunKept
  <2>3. Keys'
    BY <2>1, <2>2 DEF Keys, Keyless, Tracked
  <2>4. Agrees(at)'
    BY <2>1, <2>2, AgreesAtStart DEF Sound
  <2>5. QED
    BY <1>1, <2>1, <2>3, <2>4
<1>10. CASE CallerDeref
  <2>1. /\ status' = "aborted" /\ UNCHANGED compiler
        /\ UNCHANGED <<nextKey, keyTable, keySlot, pointer, cell, alive, births>>
    BY <1>10 DEF CallerDeref, frame, library, lives
  <2>2. Agrees(at)'
    BY <2>1 DEF Agrees
  <2>3. Keys'
    BY <2>1, RunKept DEF Keys, Keyless, Tracked
  <2>4. QED
    BY <1>1, <2>1, <2>2, <2>3
<1>11. QED
  BY <1>2, <1>3, <1>4, <1>5, <1>6, <1>7, <1>8, <1>9, <1>10 DEF Running

LEMMA FlowInit == Init => FlowInv
<1>1. SUFFICES ASSUME Init PROVE FlowInv
  OBVIOUS
<1>2. TypeInv
  BY <1>1, InitType
<1>3. Empty \in Scope /\ \A n \in Names : Empty[n] = None
  BY DEF Empty, Scope, Targets
<1>4. Keys
  <2>1. \A d \in Decls : alive[d] = Dead /\ keyTable[d] = NoKey /\ pointer[d] = NullPtr
    BY <1>1 DEF Init
  <2>2. nextKey = births + 1 /\ cell = NullPtr /\ status = "compiling"
    BY <1>1 DEF Init
  <2>3. Tracked(NullPtr)
    BY DEF Tracked, NullPtr
  <2>4. QED
    BY <2>1, <2>2, <2>3 DEF Keys, Keyless
<1>5. PICK lev : Levels(lev)
  BY <1>2 DEF TypeInv, OpenOK
<1>6. PICK at : at = [k \in Nat |-> Both({})]
  OBVIOUS
<1>7. /\ open = <<>> /\ code = <<>> /\ scopes = <<Empty>> /\ variables = Empty
      /\ status = "compiling" /\ declared = 0
  BY <1>1 DEF Init
<1>8. Len(open) = 0 /\ Len(scopes) = 1 /\ DOMAIN scopes = {1} /\ Len(code) = 0 /\ DOMAIN code = {}
      /\ DOMAIN open = {}
  BY <1>7
<1>9. Scoped(lev)
  <2>1. \A i \in DOMAIN scopes, n \in Names : scopes[i][n] = None
    BY <1>3, <1>7
  <2>2. \A n \in Names : variables[n] = None
    BY <1>3, <1>7
  <2>3. Resolved(scopes, variables, declared, function_locals)
    BY <1>7, <2>1, <2>2 DEF Resolved, None
  <2>4. QED
    BY <2>1, <2>3 DEF Scoped, Released, CounterScopes
<1>10. Both({}) \in States
  BY BothIs
<1>11. Flow(code, Heads(open), at)
  <2>1. at \in [Nat -> States] /\ at[1] = Both({})
    BY <1>6, <1>10
  <2>2. QED
    BY <1>8, <2>1 DEF Flow
<1>12. Reached(lev, at)
  <2>1. Bound(scopes, Len(scopes)) = {}
    <3>1. \A n \in Names : scopes[1][n] = None
      BY <1>3, <1>7
    <3>2. \A d \in Decls : d # None
      BY DEF Decls, None
    <3>3. \A i \in 1 .. Len(scopes) : i = 1
      BY <1>8
    <3>4. QED
      BY <3>1, <3>2, <3>3 DEF Bound
  <2>2. at[Here] = Both({})
    BY <1>6, <1>8 DEF Here
  <2>3. Waiting(open, scopes, lev, at)
    BY <1>8 DEF Waiting
  <2>4. QED
    BY <2>1, <2>2, <2>3 DEF Reached
<1>13. Agrees(at)
  BY <1>7 DEF Agrees
<1>14. Sound(lev, at)
  BY <1>5, <1>9, <1>11, <1>12 DEF Sound
<1>15. QED
  BY <1>4, <1>13, <1>14 DEF FlowInv

LEMMA FlowStep ==
    ASSUME TypeInv, ~Shadowing, FlowInv, [Next]_vars
    PROVE  FlowInv'
<1>1. PICK lev, at : Sound(lev, at) /\ Agrees(at)
  BY DEF FlowInv
<1>2. Keys
  BY DEF FlowInv
<1>3. CASE Compiling
  BY <1>1, <1>2, <1>3, CompileSound, CompileKeys DEF FlowInv
<1>4. CASE Running
  BY <1>1, <1>2, <1>4, RunSound DEF FlowInv
<1>5. CASE UNCHANGED vars
  <2>1. Sound(lev, at)'
    BY <1>1, <1>5 DEF vars, compiler, Sound, Levels, Scoped, Reached, Here
  <2>2. Agrees(at)'
    BY <1>1, <1>5 DEF vars, compiler, lives, library, Agrees, Keyless
  <2>3. Keys'
    BY <1>2, <1>5 DEF vars, compiler, frame, lives, library, Keys, Keyless, Tracked
  <2>4. QED
    BY <2>1, <2>2, <2>3 DEF FlowInv
<1>6. QED
  BY <1>3, <1>4, <1>5 DEF Next, Over

-----------------------------------------------------------------------------
(* What follows *)

LEMMA CountersAreThose == \A d \in Decls : d \in Counters(code) => IsCounter(d)
BY DEF Counters, IsCounter

LEMMA FlowReleases ==
    ASSUME FlowInv
    PROVE  DeadVariableHasNoKey
BY CountersAreThose DEF FlowInv, Keys, Keyless, DeadVariableHasNoKey

\* The pointer that a function which runs is about to dereference.
LEMMA FlowPointer ==
    ASSUME TypeInv, FlowInv, status # "returned", NEW p \in Dereferenced
    PROVE  /\ At("deref") /\ Tracked(p) /\ p \in Pointer
<1>1. At("deref") /\ p = pointer[code[pc].ptr]
  BY DEF Dereferenced
<1>2. code[pc].ptr \in Decls
  BY <1>1, NextInstruction, InstrTyped DEF At
<1>3. QED
  BY <1>1, <1>2 DEF FlowInv, Keys, TypeInv, FrameOK

LEMMA FlowLive ==
    ASSUME TypeInv, FlowInv
    PROVE  AccessLive
<1>1. SUFFICES ASSUME status # "returned", NEW p \in Dereferenced, Passes(p)
               PROVE  Live(p) \/ IsCounter(p.to)
  BY DEF AccessLive
<1>2. Tracked(p) /\ p \in Pointer
  BY <1>1, FlowPointer
<1>3. p.to \in Decls /\ p.key = p.of /\ p.of # Dead /\ (p.key = NoKey \/ keyTable[p.to] = p.key)
  BY <1>1, <1>2 DEF Passes, Tracked, Pointer
<1>4. keyTable[p.to] = p.of /\ p.of # NoKey
  BY <1>3 DEF NoKey, Dead
<1>5. CASE alive[p.to] = Dead
  <2>1. Keyless(p.to)
    BY <1>3, <1>5 DEF FlowInv, Keys
  <2>2. p.to \in Counters(code)
    BY <1>4, <2>1 DEF Keyless
  <2>3. QED
    BY <1>3, <2>2, CountersAreThose
<1>6. CASE alive[p.to] # Dead
  <2>1. keyTable[p.to] \in {alive[p.to], NoKey}
    BY <1>3, <1>6 DEF FlowInv, Keys
  <2>2. QED
    BY <1>1, <1>3, <1>4, <2>1 DEF Live, Passes
<1>7. QED
  BY <1>5, <1>6

LEMMA FlowAlarms ==
    ASSUME TypeInv, FlowInv, "return_deref" \notin Forms
    PROVE  NoFalseAlarm
<1>1. SUFFICES ASSUME NEW p \in Dereferenced, Live(p) PROVE Passes(p)
  BY DEF NoFalseAlarm
<1>2. CASE status = "returned"
  <2>1. p = result
    BY <1>1, <1>2 DEF Dereferenced
  <2>2. result.key = NoKey
    BY <1>2 DEF FlowInv, Keys
  <2>3. QED
    BY <1>1, <2>1, <2>2 DEF Live, Passes
<1>3. CASE status # "returned"
  <2>1. At("deref") /\ Tracked(p) /\ p \in Pointer
    BY <1>1, <1>3, FlowPointer
  <2>2. p.to \in Decls /\ p.key = p.of /\ alive[p.to] = p.of /\ p.of # Dead /\ p.to # None
    BY <1>1, <2>1 DEF Live, Tracked, Pointer
  <2>3. PICK lev, at : Sound(lev, at) /\ Agrees(at)
    BY DEF FlowInv
  <2>4. /\ status = "running" /\ code[pc].op = "deref"
        /\ code[pc] \in Instr /\ Effect(code[pc], at[pc], at[pc + 1], Counters(code))
        /\ \A d \in Decls : /\ alive[d] # Dead <=> d \in at[pc].live
                            /\ d \in at[pc].keyed => keyTable[d] = alive[d]
    BY <2>1, <2>3, StateAtPc DEF At
  <2>5. at[pc].keyed = at[pc].live
    BY <2>4, EffectIs
  <2>6. keyTable[p.to] = alive[p.to]
    BY <2>2, <2>4, <2>5
  <2>7. QED
    BY <2>2, <2>6 DEF Passes
<1>4. QED
  BY <1>2, <1>3

LEMMA FlowAlways ==
    ASSUME ~Shadowing
    PROVE  Spec => [](TypeInv /\ FlowInv)
<1>1. Init => TypeInv /\ FlowInv
  BY InitType, FlowInit
<1>2. TypeInv /\ FlowInv /\ [Next]_vars => (TypeInv /\ FlowInv)'
  BY TypeStep, FlowStep
<1>3. QED
  BY <1>1, <1>2, PTL DEF Spec

\* On every path out of a scope, by its end, by a loop's jump or by a return, its variables lose
\* their keys: a variable that is over has none in KEY_TABLE, unless it is a loop's counter.
THEOREM ScopesReleaseKeys ==
    ASSUME ~Shadowing
    PROVE  Spec => []DeadVariableHasNoKey
<1>1. TypeInv /\ FlowInv => DeadVariableHasNoKey
  BY FlowReleases
<1>2. QED
  BY <1>1, FlowAlways, PTL

\* A dereference that the emitted check lets through finds the variable its pointer was taken
\* from alive, on every path, in every iteration and every call; as AccessLive says, counters
\* of for loops are excepted, and what a caller does with a returned pointer.
THEOREM PassedAccessesAreLive ==
    ASSUME ~Shadowing
    PROVE  Spec => []AccessLive
<1>1. TypeInv /\ FlowInv => AccessLive
  BY FlowLive
<1>2. QED
  BY <1>1, FlowAlways, PTL

\* A dereference of a variable that is alive is never reported, in a program that dereferences
\* no pointer after `return': there gen_stmt has released the keys already.
THEOREM LiveAccessesPass ==
    ASSUME ~Shadowing, "return_deref" \notin Forms
    PROVE  Spec => []NoFalseAlarm
<1>1. TypeInv /\ FlowInv => NoFalseAlarm
  BY FlowAlarms
<1>2. QED
  BY <1>1, FlowAlways, PTL
=============================================================================
