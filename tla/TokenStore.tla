----------------------------- MODULE TokenStore -----------------------------
(***************************************************************************)
(* load_or_create_token_in of native/src/settings.rs: brokers and installers *)
(* that start at the same time agree on the token in the file mcp-token.     *)
(*                                                                         *)
(* A process writes its token under a temporary name and then links the      *)
(* file, which its owner names, under the name mcp-token.  Any call may fail, *)
(* a process may be killed, and the machine may stop; what a process has      *)
(* written and not synchronized may then be cut short, and a link may be      *)
(* gone.  The token of a process is the process: random tokens differ.        *)
(***************************************************************************)
EXTENDS Integers, FiniteSets

CONSTANTS Processes,
          Good, Bad,       \* files that somebody wrote before: a token, and anything else
          MaxStops         \* bound: how often the machine stops

\* Tokens differ from each other and from what is no token.
ASSUME TokenAssumption ==
    /\ Good # Bad /\ {Good, Bad} \cap Processes = {}
    /\ {"none", "error"} \cap (Processes \cup {Good, Bad}) = {}
    /\ MaxStops \in Nat

VARIABLES
    name,        \* mcp-token: the owner of the file, an Option
    temporaries, \* owners of the temporary names
    contents,    \* of each file
    synced,      \* files whose contents are on the disk
    pc, result,  \* of each process
    erred,       \* processes one of whose calls has failed
    stops        \* how often the machine has stopped

vars == <<name, temporaries, contents, synced, pc, result, erred, stops>>

Files == Processes \cup {Good, Bad}
Whole == {"token", "line"}       \* without and with its end of line: it is trimmed

TypeOK ==
    /\ name \in {{}} \cup {{file} : file \in Files}
    /\ temporaries \subseteq Processes
    /\ contents \in [Files -> {"none", "part"} \cup Whole]
    /\ synced \subseteq Files
    /\ pc \in [Processes -> {"load", "create", "writeToken", "writeLine", "sync", "link",
                             "read", "remove", "done", "doneLeaving", "killed"}]
    /\ result \in [Processes -> {"none", "error", Good} \cup Processes]
    /\ erred \subseteq Processes
    /\ stops \in 0..MaxStops

Init ==
    /\ name \in {{}, {Good}, {Bad}}
    /\ temporaries = {}
    /\ contents = [file \in Files |-> IF file = Good THEN "line"
                                      ELSE IF file = Bad THEN "part" ELSE "none"]
    /\ synced = {Good, Bad}
    /\ pc = [p \in Processes |-> "load"]
    /\ result = [p \in Processes |-> "none"]
    /\ erred = {}
    /\ stops = 0

-----------------------------------------------------------------------------

Go(p, from, to) == pc[p] = from /\ pc' = [pc EXCEPT ![p] = to]
Ended(p) == pc[p] \in {"done", "doneLeaving"}
SetResult(p, answer) == result' = [result EXCEPT ![p] = answer]

\* read_token and validate_token: what is in the file of that name.
ReadToken == IF \E file \in name : contents[file] \in Whole THEN CHOOSE file \in name : TRUE
             ELSE "error"

\* The token that is there, or an error, or on to make one.
Load(p) ==
    /\ IF name = {} THEN Go(p, "load", "create") /\ UNCHANGED result
       ELSE Go(p, "load", "done") /\ SetResult(p, ReadToken)
    /\ UNCHANGED <<name, temporaries, contents, synced, erred, stops>>

CreateTemporary(p) ==
    /\ Go(p, "create", "writeToken")
    /\ temporaries' = temporaries \cup {p}
    /\ contents' = [contents EXCEPT ![p] = "part"]
    /\ UNCHANGED <<name, synced, result, erred, stops>>

WriteToken(p) ==
    /\ Go(p, "writeToken", "writeLine")
    /\ contents' = [contents EXCEPT ![p] = "token"]
    /\ UNCHANGED <<name, temporaries, synced, result, erred, stops>>

WriteLine(p) ==
    /\ Go(p, "writeLine", "sync")
    /\ contents' = [contents EXCEPT ![p] = "line"]
    /\ UNCHANGED <<name, temporaries, synced, result, erred, stops>>

\* (a wrong variant: the contents stay in memory)
SyncLater(p) ==
    /\ Go(p, "sync", "link")
    /\ UNCHANGED <<name, temporaries, contents, synced, result, erred, stops>>

SyncAll(p) ==
    /\ Go(p, "sync", "link")
    /\ synced' = synced \cup {p}
    /\ UNCHANGED <<name, temporaries, contents, result, erred, stops>>

\* (a wrong variant: the file takes the name, whoever has it)
RenameOver(p) ==
    /\ Go(p, "link", "remove")
    /\ name' = {p}
    /\ SetResult(p, p)
    /\ UNCHANGED <<temporaries, contents, synced, erred, stops>>

\* (a wrong variant: a process that loses the race fails)
HardLinkOrFail(p) ==
    /\ Go(p, "link", "remove")
    /\ IF name = {} THEN name' = {p} /\ SetResult(p, p)
       ELSE SetResult(p, "error") /\ UNCHANGED name
    /\ UNCHANGED <<temporaries, contents, synced, erred, stops>>

HardLink(p) ==
    /\ IF name = {} THEN Go(p, "link", "remove") /\ name' = {p} /\ SetResult(p, p)
       ELSE Go(p, "link", "read") /\ UNCHANGED <<name, result>>
    /\ UNCHANGED <<temporaries, contents, synced, erred, stops>>

ReadWinner(p) ==
    /\ Go(p, "read", "remove")
    /\ SetResult(p, ReadToken)
    /\ UNCHANGED <<name, temporaries, contents, synced, erred, stops>>

\* The name goes; the file stays if it is mcp-token.  A failure is ignored.
RemoveTemporary(p) ==
    /\ Go(p, "remove", "done")
    /\ temporaries' = temporaries \ {p}
    /\ UNCHANGED <<name, contents, synced, result, erred, stops>>

-----------------------------------------------------------------------------
(* What may go wrong *)

\* (a wrong variant: an early return that leaves the temporary file)
FailAndReturn(p) ==
    /\ pc[p] \in {"load", "create", "writeToken", "writeLine", "sync", "link", "read"}
    /\ pc' = [pc EXCEPT ![p] = "done"]
    /\ SetResult(p, "error")
    /\ erred' = erred \cup {p}
    /\ UNCHANGED <<name, temporaries, contents, synced, stops>>

\* A call fails: the error is the result, once the temporary name is gone.
Fail(p) ==
    /\ pc[p] \in {"load", "create", "writeToken", "writeLine", "sync", "link", "read"}
    /\ pc' = [pc EXCEPT ![p] = IF @ = "load" THEN "done" ELSE "remove"]
    /\ SetResult(p, "error")
    /\ erred' = erred \cup {p}
    /\ UNCHANGED <<name, temporaries, contents, synced, stops>>

FailToRemove(p) ==
    /\ Go(p, "remove", "doneLeaving")
    /\ UNCHANGED <<name, temporaries, contents, synced, result, erred, stops>>

Kill(p) ==
    /\ pc[p] \notin {"load", "done", "doneLeaving", "killed"}
    /\ pc' = [pc EXCEPT ![p] = "killed"]
    /\ UNCHANGED <<name, temporaries, contents, synced, result, erred, stops>>

\* Processes that have not begun start after the machine does.
Stop ==
    /\ stops < MaxStops
    /\ stops' = stops + 1
    /\ pc' = [p \in Processes |-> IF pc[p] = "load" THEN "load" ELSE "killed"]
    /\ result' = [p \in Processes |-> "none"]
    /\ name' \in {name, IF name \subseteq Processes THEN {} ELSE name}
    /\ \E cut \in SUBSET (Processes \ synced) :
           contents' = [file \in Files |-> IF file \in cut /\ contents[file] # "none" THEN "part"
                                           ELSE contents[file]]
    /\ synced' = {file \in Files : contents'[file] # "none"}
    /\ UNCHANGED <<temporaries, erred>>

Step(p) == Load(p) \/ CreateTemporary(p) \/ WriteToken(p) \/ WriteLine(p) \/ SyncAll(p)
           \/ HardLink(p) \/ ReadWinner(p) \/ RemoveTemporary(p)

Next == \/ Stop
        \/ \E p \in Processes : Step(p) \/ Fail(p) \/ FailToRemove(p) \/ Kill(p)

Spec == Init /\ [][Next]_vars

-----------------------------------------------------------------------------
(* Properties *)

\* Whatever fails or stops, and whenever: what the name mcp-token leads to is a
\* whole token, or what somebody else put there.
NeverPartial == \A file \in name : file = Bad \/ contents[file] \in Whole

\* A process fails only because one of its calls failed, or because the file
\* was no token to begin with: to lose the race for the name is no failure.
NoSpuriousFailure ==
    \A p \in Processes : result[p] = "error" => p \in erred \/ name = {Bad}

\* A process that came to its end leaves no temporary file, however it ended,
\* unless the removal itself failed.
NoLeftovers == \A p \in temporaries : pc[p] # "done"

\* The token that a process returned is the one in the file, and so the one
\* that every other process returns.
Agreement ==
    \A p \in Processes : Ended(p) => result[p] = "error" \/ name = {result[p]}

\* All of this at once.
TokenIsSound ==
    /\ TypeOK
    /\ NeverPartial
    /\ NoSpuriousFailure
    /\ NoLeftovers
    /\ Agreement

\* The file is a register that is written once.
Register == INSTANCE TokenRegister
    WITH Written <- {Good, Bad},
         chosen <- name,
         answers <- [p \in Processes |-> IF Ended(p) THEN result[p] ELSE "none"]
WrittenOnce == Register!Spec

\* The invariant that these rest on: the file of a process is written and
\* synchronized before it takes the name and never after; what a process is
\* about to return is final; and its temporary name is its own.
Settled == {"remove", "done", "doneLeaving"}
ProcessInv(p) ==
    /\ pc[p] = "writeLine" => contents[p] = "token"
    /\ pc[p] \in {"sync", "link"} => contents[p] = "line"
    /\ pc[p] = "link" => p \in synced
    /\ p \in name => /\ p \in synced /\ contents[p] = "line"
                     /\ pc[p] \in Settled \cup {"killed"}
    /\ pc[p] = "read" => name # {}
    /\ pc[p] \in Settled => result[p] = "error" \/ name = {result[p]}
    /\ p \in temporaries => pc[p] \notin {"load", "create", "done"}
IInv ==
    /\ TypeOK
    /\ contents[Good] = "line" /\ contents[Bad] = "part"
    /\ \A p \in Processes : ProcessInv(p)
    /\ NoSpuriousFailure

=============================================================================
