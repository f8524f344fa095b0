----------------------------- MODULE FfiSandbox -----------------------------
(***************************************************************************)
(* A call of a function the program only declares and that is not of the   *)
(* standard library: the code gen_expr emits around it, the sandbox of     *)
(* libstricc_rt, and the handler of SIGSEGV.  Every pointer argument whose *)
(* size is known is replaced by a copy between two guard pages, with a     *)
(* canary behind it; after the call the copies are written back.           *)
(*                                                                         *)
(* Memory is a row of cells, the program's objects lie next to each other  *)
(* in it, and a page is PageSize cells.  A library reads and writes        *)
(* through the pointers it is given and may call the program back.         *)
(***************************************************************************)
EXTENDS Integers, FiniteSets, Sequences, SequencesExt

CONSTANTS
    Threads,
    Objects,     \* number of objects, each of ObjectSize cells
    ObjectSize,
    PageSize,
    Values,      \* what a cell may hold
    Interior,    \* TRUE: a pointer into the middle of an object may be passed
    Sharing,     \* TRUE: what a library has been lent may be passed and written elsewhere
    MaxArgs,     \* bound on the pointer arguments of a call
    MaxCalls,    \* bound on the calls of the program
    MaxDepth     \* bound on the libraries a thread is in at once

ASSUME FfiAssumption ==
    /\ {Objects, ObjectSize, PageSize} \subseteq Nat \ {0}
    /\ {MaxArgs, MaxCalls, MaxDepth} \subseteq Nat
    /\ {Interior, Sharing} \subseteq BOOLEAN
    /\ Values # {}

Cells    == 1 .. Objects * ObjectSize
Base(o)  == (o - 1) * ObjectSize + 1
Extent(o) == Base(o) .. Base(o) + ObjectSize - 1
Infinite == -1   \* u64::MAX, the size of a wildcard pointer
Canary   == 1    \* its eight bytes are overwritten or not, as one cell

\* An argument as the program passes it: an address and the size its metadata give,
\* which is that of the whole object wherever in it the pointer points.
NullArg == [object |-> 0, at |-> 0, size |-> 0]
Args ==
    {NullArg} \cup
    {a \in [object : 1 .. Objects, at : Cells, size : {ObjectSize, Infinite}] :
        a.at \in IF Interior THEN Extent(a.object) ELSE {Base(a.object)}}

\* What the library is given for it: the pointer itself, NULL, or a copy with its
\* canary; none of these before it is made and after it is unmapped.
Raw        == [kind |-> "raw"]
NullGiven  == [kind |-> "null"]
Gone       == [kind |-> "gone"]
Copy(data) == [kind |-> "copy", data |-> data, canary |-> TRUE]

\* Cells of the pages between the guard pages around a copy of n cells.
DataCells(n) == ((n + Canary + PageSize - 1) \div PageSize) * PageSize

VARIABLES
    memory,       \* the program's memory
    calls,        \* calls[t]: the FFI calls t is in, innermost last
    in_ffi_call,  \* IN_FFI_CALL
    mapped,       \* mappings made and not yet unmapped
    begun,        \* calls begun
    process       \* "up", or the message it was aborted with

vars == <<memory, calls, in_ffi_call, mapped, begun, process>>

Up         == process = "up"
Depth(t)   == Len(calls[t])
At(t, stage) == Depth(t) > 0 /\ Last(calls[t]).stage = stage
Top(t)     == Last(calls[t])
SetTop(t, call) == calls' = [calls EXCEPT ![t][Depth(t)] = call]

\* t runs code of the program: it is in no call, or was called back.
InProgram(t) == Depth(t) = 0 \/ At(t, "callback")

Passed(call) == {call.args[j].object : j \in DOMAIN call.args} \ {0}
Frames       == UNION {{<<t, i>> : i \in 1 .. Depth(t)} : t \in Threads}
Lent(call)   == UNION {Extent(o) : o \in Passed(call)}
LentNow      == UNION {Lent(calls[f[1]][f[2]]) : f \in Frames}

AnyValue == CHOOSE v \in Values : TRUE
Cleared ==
    /\ memory' = [c \in Cells |-> AnyValue]
    /\ calls' = [t \in Threads |-> <<>>]
    /\ in_ffi_call' = FALSE
    /\ mapped' = 0

\* The message, and the end: of an aborted process nothing is left.
Abort(message) == process' = message /\ Cleared /\ UNCHANGED begun

\* The copies there are, each with its place.
Copies ==
    UNION {LET call == calls[f[1]][f[2]]
           IN  {[of |-> <<f, j>>, data |-> call.given[j].data] :
                   j \in {k \in DOMAIN call.given : call.given[k].kind = "copy"}} :
           f \in Frames}

Init ==
    /\ memory = [c \in Cells |-> AnyValue]
    /\ calls = [t \in Threads |-> <<>>]
    /\ in_ffi_call = FALSE
    /\ mapped = 0
    /\ begun = 0
    /\ process = "up"

-----------------------------------------------------------------------------
(* The code around a call. *)

\* No object is lent twice, unless Sharing.
Separate(args) ==
    /\ \A j, k \in DOMAIN args :
          j # k /\ args[j] # NullArg => args[j].object # args[k].object
    /\ \A f \in Frames : Passed([args |-> args]) \cap Passed(calls[f[1]][f[2]]) = {}

BeginCall(t) ==
    /\ InProgram(t)
    /\ Depth(t) < MaxDepth
    /\ begun < MaxCalls
    /\ \E n \in 1 .. MaxArgs : \E args \in [1 .. n -> Args] :
          /\ Sharing \/ Separate(args)
          /\ calls' = [calls EXCEPT ![t] =
                 Append(@, [args |-> args, given |-> [j \in 1 .. n |-> Gone],
                            stage |-> "in", next |-> 1])]
    /\ begun' = begun + 1
    /\ UNCHANGED <<memory, in_ffi_call, mapped, process>>

\* The copy of `size' cells is taken from the pointer, not from its object.
Window(a) == a.at .. a.at + a.size - 1
DataOf(a) == [c \in Window(a) |-> IF c \in Cells THEN memory[c] ELSE AnyValue]

Give(t, given) ==
    SetTop(t, [Top(t) EXCEPT !.given[Top(t).next] = given, !.next = @ + 1])

ArgumentsLeft(t) == Top(t).next <= Len(Top(t).args)

\* Mutant of AllGivenBack: one argument too many is waited for.
OneMoreGivenBack(t) == Top(t).next > Len(Top(t).args) + 1

AllGivenBack(t) == ~ArgumentsLeft(t)

SandboxIn(t) ==
    /\ At(t, "in")
    /\ ArgumentsLeft(t)
    /\ LET a == Top(t).args[Top(t).next]
       IN  \/ /\ a.size = Infinite \/ a.size = 0
              /\ Give(t, Raw)
              /\ UNCHANGED mapped
           \/ /\ a.size > 0
              /\ Give(t, Copy(DataOf(a)))
              /\ mapped' = mapped + 1
           \/ /\ a.size > 0      \* mmap fails
              /\ Give(t, NullGiven)
              /\ UNCHANGED mapped
    /\ UNCHANGED <<memory, in_ffi_call, begun, process>>

Enter(t) ==
    /\ At(t, "in")
    /\ ~ArgumentsLeft(t)
    /\ in_ffi_call' = TRUE
    /\ SetTop(t, [Top(t) EXCEPT !.stage = "library"])
    /\ UNCHANGED <<memory, mapped, begun, process>>

\* Mutant of Leave: the flag is kept as long as a call is not over.
LeaveLast(t) ==
    /\ At(t, "library")
    /\ in_ffi_call' = \E u \in Threads : Depth(u) > 0
    /\ SetTop(t, [Top(t) EXCEPT !.stage = "out", !.next = 1])
    /\ UNCHANGED <<memory, mapped, begun, process>>

Leave(t) ==
    /\ At(t, "library")
    /\ in_ffi_call' = FALSE
    /\ SetTop(t, [Top(t) EXCEPT !.stage = "out", !.next = 1])
    /\ UNCHANGED <<memory, mapped, begun, process>>

\* Mutant of WriteBack: all of the data pages are copied back.
WriteBackPages(a, data) ==
    [c \in Cells |-> IF c \in a.at .. a.at + DataCells(a.size) - 1
                      THEN IF c \in DOMAIN data THEN data[c] ELSE AnyValue
                      ELSE memory[c]]

WriteBack(a, data) == [c \in Cells |-> IF c \in DOMAIN data THEN data[c] ELSE memory[c]]

\* Mutant of Unmapped: what the library was given stays mapped.
LeftMapped == mapped

Unmapped == mapped - 1

SandboxOut(t) ==
    /\ At(t, "out")
    /\ ArgumentsLeft(t)
    /\ LET j == Top(t).next
           a == Top(t).args[j]
           g == Top(t).given[j]
       IN  \/ /\ g.kind # "copy"
              /\ Give(t, Gone)
              /\ UNCHANGED <<memory, in_ffi_call, mapped, begun, process>>
           \/ /\ g.kind = "copy"
              /\ g.canary
              /\ memory' = WriteBack(a, g.data)
              /\ mapped' = Unmapped
              /\ Give(t, Gone)
              /\ UNCHANGED <<in_ffi_call, begun, process>>
           \/ /\ g.kind = "copy"
              /\ ~g.canary
              /\ Abort("overrun")

Return(t) ==
    /\ At(t, "out")
    /\ AllGivenBack(t)
    /\ calls' = [calls EXCEPT ![t] = Front(@)]
    /\ UNCHANGED <<memory, in_ffi_call, mapped, begun, process>>

-----------------------------------------------------------------------------
(* The library, and the rest of the program. *)

\* The handler of SIGSEGV: its message depends on the flag.
sigsegv_handler == Abort(IF in_ffi_call THEN "library fault" ELSE "stack overflow")

\* The library writes the cell it takes to be at offset `off' of argument j.  Behind a
\* copy lie its canary and the rest of the page.
LibraryWrites(t) ==
    /\ At(t, "library")
    /\ \E j \in DOMAIN Top(t).args, v \in Values :
          LET a == Top(t).args[j]
              g == Top(t).given[j]
          IN  \/ /\ g.kind = "raw"
                 /\ a # NullArg
                 /\ \E c \in Extent(a.object) : memory' = [memory EXCEPT ![c] = v]
                 /\ UNCHANGED <<calls, in_ffi_call, mapped, begun, process>>
              \/ /\ g.kind = "copy"
                 /\ \E off \in 0 .. DataCells(a.size) - 1 :
                       SetTop(t, [Top(t) EXCEPT !.given[j] =
                           IF off < a.size
                           THEN [g EXCEPT !.data[a.at + off] = v]
                           ELSE [g EXCEPT !.canary = @ /\ off >= a.size + Canary]])
                 /\ UNCHANGED <<memory, in_ffi_call, mapped, begun, process>>

\* It writes through NULL or reaches a guard page.
LibraryFaults(t) ==
    /\ At(t, "library")
    /\ \E j \in DOMAIN Top(t).args :
          Top(t).args[j] = NullArg \/ Top(t).given[j].kind # "raw"
    /\ sigsegv_handler

CallBack(t) ==
    /\ At(t, "library")
    /\ SetTop(t, [Top(t) EXCEPT !.stage = "callback"])
    /\ UNCHANGED <<memory, in_ffi_call, mapped, begun, process>>

CallbackReturns(t) ==
    /\ At(t, "callback")
    /\ SetTop(t, [Top(t) EXCEPT !.stage = "library"])
    /\ UNCHANGED <<memory, in_ffi_call, mapped, begun, process>>

ProgramWrites(t) ==
    /\ InProgram(t)
    /\ \E c \in Cells, v \in Values :
          /\ Sharing \/ c \notin LentNow
          /\ memory' = [memory EXCEPT ![c] = v]
    /\ UNCHANGED <<calls, in_ffi_call, mapped, begun, process>>

StackOverflow(t) ==
    /\ InProgram(t)
    /\ sigsegv_handler

-----------------------------------------------------------------------------
CallStep(t) ==
    Up /\ (SandboxIn(t) \/ Enter(t) \/ Leave(t) \/ SandboxOut(t) \/ Return(t) \/ CallbackReturns(t))

Next ==
    \E t \in Threads :
       \/ CallStep(t)
       \/ Up /\ (BeginCall(t) \/ LibraryWrites(t) \/ LibraryFaults(t) \/ CallBack(t)
                  \/ ProgramWrites(t) \/ StackOverflow(t))

Spec == Init /\ [][Next]_vars

\* The emitted code around a call goes on, and a library, however often it calls back,
\* returns in the end.
FairSpec == Spec /\ \A t \in Threads : WF_vars(CallStep(t)) /\ SF_vars(Up /\ Leave(t))

-----------------------------------------------------------------------------
(* Properties *)

TypeOK ==
    /\ memory \in [Cells -> Values]
    /\ in_ffi_call \in BOOLEAN
    /\ mapped \in Nat
    /\ begun \in 0 .. MaxCalls
    /\ process \in {"up", "overrun", "library fault", "stack overflow"}
    /\ \A f \in Frames :
          LET call == calls[f[1]][f[2]]
          IN  /\ call.stage \in {"in", "library", "callback", "out"}
              /\ call.next \in 1 .. Len(call.args) + 1
              /\ \A j \in DOMAIN call.args :
                    /\ call.args[j] \in Args
                    /\ call.given[j].kind = "copy" =>
                          call.given[j].data \in [Window(call.args[j]) -> Values]
    /\ \A t \in Threads : \A i \in 1 .. Depth(t) - 1 : calls[t][i].stage = "callback"

\* The flag that decides what a fault is blamed on is never left set: with no thread
\* between ffi_enter and ffi_leave, whatever calls were nested or ran at once, a stack
\* overflow of the program is reported as one.
FlagClearWhenIdle ==
    in_ffi_call => \E f \in Frames : calls[f[1]][f[2]].stage \in {"library", "callback"}

\* A mapping is held by an argument of a call that has not returned: what sandbox_in
\* maps is unmapped once, although some arguments are not sandboxed, some mmaps fail
\* and which of these happened is only told from the pointers after the call.
MappingsHeld == mapped = Cardinality(Copies)

\* The memory as the program and the libraries see it together: a lent cell is where
\* its copy is.
View == [c \in Cells |->
            IF \E d \in Copies : c \in DOMAIN d.data
            THEN (CHOOSE d \in Copies : c \in DOMAIN d.data).data[c]
            ELSE memory[c]]

Overrun(call) == \E j \in DOMAIN call.given : call.given[j].kind = "copy" /\ ~call.given[j].canary

Direct == INSTANCE DirectCalls WITH
    memory  <- View,
    lent    <- [t \in Threads |-> [i \in 1 .. Depth(t) |-> Lent(calls[t][i])]],
    strayed <- [t \in Threads |-> [i \in 1 .. Depth(t) |-> Overrun(calls[t][i])]],
    up      <- Up

\* Copying in, calling and copying out does to the program's memory what the library
\* would have done to it directly: no update of the library, of another thread or of a
\* callback is lost, nothing but what was passed changes, and a library that wrote just
\* behind its argument does not return.
ImplementsDirectCalls == Direct!Spec

\* Every call returns, unless the process is aborted.
CallsReturn == \A t \in Threads : Depth(t) > 0 ~> (Depth(t) = 0 \/ ~Up)
=============================================================================
