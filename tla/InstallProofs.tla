---------------------------- MODULE InstallProofs ----------------------------
(***************************************************************************)
(* Theorems about TokenStore and Install, for any number of processes and     *)
(* power losses: the file mcp-token is whole, every process that gets a token  *)
(* gets the one in the file, and the protocol implements a register written   *)
(* once; all of it holds beside the manifest too, and the manifest is sound.  *)
(***************************************************************************)
EXTENDS Install, TLAPS

-----------------------------------------------------------------------------
(* The token file *)

\* What a process reads is the token in the file, or an error; and an error only
\* of a file that was no token to begin with.
LEMMA ReadTokenFacts ==
    ASSUME IInv, name # {}
    PROVE  /\ ReadToken \in Processes \cup {Good, "error"}
           /\ ReadToken = "error" \/ name = {ReadToken}
           /\ ReadToken = "error" => name = {Bad}
  <1>1. PICK file \in Files : name = {file}
    BY DEF IInv, TypeOK
  <1>2. (CHOOSE f \in name : TRUE) = file
    BY <1>1
  <1>3. contents[file] \in Whole <=> file # Bad
    BY <1>1, TokenAssumption DEF IInv, ProcessInv, Files, Whole
  <1>4. ReadToken = IF contents[file] \in Whole THEN file ELSE "error"
    BY <1>1, <1>2 DEF ReadToken
  <1>5. file # "error"
    BY <1>1, TokenAssumption DEF Files
  <1>6. QED BY <1>1, <1>3, <1>4, <1>5 DEF Files

LEMMA InitIInv == ASSUME Init PROVE IInv
  <1>1. TypeOK
    BY TokenAssumption DEF Init, TypeOK, Files, Whole
  <1>2. contents[Good] = "line" /\ contents[Bad] = "part"
    BY TokenAssumption DEF Init, Files
  <1>3. \A p \in Processes : ProcessInv(p)
    BY TokenAssumption DEF Init, ProcessInv, Settled
  <1>4. NoSpuriousFailure
    BY DEF Init, NoSpuriousFailure
  <1>5. QED BY <1>1, <1>2, <1>3, <1>4 DEF IInv

LEMMA TypeStep ==
    ASSUME IInv, [Next]_vars PROVE TypeOK'
  <1>1. TypeOK
    BY DEF IInv
  <1>2. CASE Stop
    <2>1. stops' \in 0..MaxStops
      BY <1>1, <1>2, TokenAssumption DEF TypeOK, Stop
    <2>2. name' \in {{}} \cup {{file} : file \in Files}
      BY <1>1, <1>2 DEF TypeOK, Stop
    <2>3. contents' \in [Files -> {"none", "part"} \cup Whole]
      BY <1>1, <1>2 DEF TypeOK, Stop
    <2>4. QED BY <1>1, <1>2, <2>1, <2>2, <2>3 DEF TypeOK, Stop
  <1>3. ASSUME NEW p \in Processes, Step(p) PROVE TypeOK'
    <2>1. p \in Files
      BY DEF Files
    <2>2. CASE Load(p)
      BY <1>1, <2>2, ReadTokenFacts DEF TypeOK, Load, Go, SetResult
    <2>3. CASE CreateTemporary(p)
      BY <1>1, <2>1, <2>3 DEF TypeOK, CreateTemporary, Go
    <2>4. CASE WriteToken(p)
      BY <1>1, <2>1, <2>4 DEF TypeOK, WriteToken, Go, Whole
    <2>5. CASE WriteLine(p)
      BY <1>1, <2>1, <2>5 DEF TypeOK, WriteLine, Go, Whole
    <2>6. CASE SyncAll(p)
      BY <1>1, <2>1, <2>6 DEF TypeOK, SyncAll, Go
    <2>7. CASE HardLink(p)
      BY <1>1, <2>1, <2>7 DEF TypeOK, HardLink, Go, SetResult
    <2>8. CASE ReadWinner(p)
      <3>1. CASE name # {}
        BY <1>1, <2>8, <3>1, ReadTokenFacts DEF TypeOK, ReadWinner, Go, SetResult
      <3>2. CASE name = {}
        <4>1. ReadToken = "error"
          BY <3>2 DEF ReadToken
        <4>2. QED BY <1>1, <2>8, <4>1 DEF TypeOK, ReadWinner, Go, SetResult
      <3>3. QED BY <3>1, <3>2
    <2>9. CASE RemoveTemporary(p)
      BY <1>1, <2>9 DEF TypeOK, RemoveTemporary, Go
    <2>10. QED BY <1>3, <2>2, <2>3, <2>4, <2>5, <2>6, <2>7, <2>8, <2>9 DEF Step
  <1>4. ASSUME NEW p \in Processes, Fail(p) PROVE TypeOK'
    BY <1>1, <1>4 DEF TypeOK, Fail, SetResult
  <1>5. ASSUME NEW p \in Processes, FailToRemove(p) \/ Kill(p) PROVE TypeOK'
    BY <1>1, <1>5 DEF TypeOK, FailToRemove, Kill, Go
  <1>6. CASE UNCHANGED vars
    BY <1>1, <1>6 DEF TypeOK, vars
  <1>7. QED BY <1>2, <1>3, <1>4, <1>5, <1>6 DEF Next

\* Load(p) or a later step of p, or its failure or its end.
Act(p) == Step(p) \/ Fail(p) \/ FailToRemove(p) \/ Kill(p)

\* A process leaves the others alone, and takes the name only if nobody has it.
LEMMA Frame ==
    ASSUME IInv, NEW p \in Processes, Act(p), NEW q \in Processes, q # p
    PROVE  /\ pc'[q] = pc[q] /\ result'[q] = result[q] /\ contents'[q] = contents[q]
           /\ q \in temporaries' <=> q \in temporaries
           /\ synced \subseteq synced'
           /\ name' = name \/ (name = {} /\ name' = {p})
  <1>1. TypeOK /\ p \in Files /\ q \in Files
    BY DEF IInv, Files
  <1>2. CASE Load(p)
    BY <1>1, <1>2 DEF TypeOK, Load, Go, SetResult
  <1>3. CASE CreateTemporary(p) \/ WriteToken(p) \/ WriteLine(p)
    BY <1>1, <1>3 DEF TypeOK, CreateTemporary, WriteToken, WriteLine, Go
  <1>4. CASE SyncAll(p)
    BY <1>1, <1>4 DEF TypeOK, SyncAll, Go
  <1>5. CASE HardLink(p) \/ ReadWinner(p)
    BY <1>1, <1>5 DEF TypeOK, HardLink, ReadWinner, Go, SetResult
  <1>6. CASE RemoveTemporary(p)
    BY <1>1, <1>6 DEF TypeOK, RemoveTemporary, Go
  <1>7. CASE Fail(p)
    BY <1>1, <1>7 DEF TypeOK, Fail, SetResult
  <1>8. CASE FailToRemove(p) \/ Kill(p)
    BY <1>1, <1>8 DEF TypeOK, FailToRemove, Kill, Go
  <1>9. QED BY <1>2, <1>3, <1>4, <1>5, <1>6, <1>7, <1>8 DEF Act, Step

LEMMA OthersStep ==
    ASSUME IInv, NEW p \in Processes, Act(p), NEW q \in Processes, q # p
    PROVE  ProcessInv(q)'
  <1>1. ProcessInv(q)
    BY DEF IInv
  <1>2. CASE name' = name
    BY <1>1, <1>2, Frame DEF ProcessInv
  <1>3. CASE name = {} /\ name' = {p}
    <2>1. pc[q] \in Settled => result[q] = "error"
      <3>1. {result[q]} # {}
        OBVIOUS
      <3>2. QED BY <1>1, <1>3, <3>1 DEF ProcessInv
    <2>2. QED BY <1>1, <1>3, <2>1, Frame DEF ProcessInv
  <1>4. QED BY <1>2, <1>3, Frame

LEMMA OwnStep ==
    ASSUME IInv, NEW p \in Processes, Act(p)
    PROVE  ProcessInv(p)'
  <1>1. TypeOK /\ ProcessInv(p) /\ p \in Files /\ p # Good /\ p # Bad /\ p # "error" /\ p # "none"
    BY TokenAssumption DEF IInv, Files
  <1>2. CASE Load(p)
    <2>1. CASE name = {}
      BY <1>1, <1>2, <2>1 DEF Load, Go, ProcessInv, TypeOK, Settled
    <2>2. CASE name # {}
      <3>1. ReadToken = "error" \/ name = {ReadToken}
        BY <2>2, ReadTokenFacts
      <3>2. QED BY <1>1, <1>2, <2>2, <3>1 DEF Load, Go, SetResult, ProcessInv, TypeOK, Settled
    <2>3. QED BY <2>1, <2>2
  <1>3. CASE CreateTemporary(p)
    BY <1>1, <1>3 DEF CreateTemporary, Go, ProcessInv, TypeOK, Settled
  <1>4. CASE WriteToken(p)
    BY <1>1, <1>4 DEF WriteToken, Go, ProcessInv, TypeOK, Settled
  <1>5. CASE WriteLine(p)
    BY <1>1, <1>5 DEF WriteLine, Go, ProcessInv, TypeOK, Settled
  <1>6. CASE SyncAll(p)
    BY <1>1, <1>6 DEF SyncAll, Go, ProcessInv, TypeOK, Settled
  <1>7. CASE HardLink(p)
    BY <1>1, <1>7 DEF HardLink, Go, SetResult, ProcessInv, TypeOK, Settled
  <1>8. CASE ReadWinner(p)
    <2>1. ReadToken = "error" \/ name = {ReadToken}
      <3>1. name = {} => ReadToken = "error"
        BY DEF ReadToken
      <3>2. QED BY <3>1, ReadTokenFacts
    <2>2. QED BY <1>1, <1>8, <2>1 DEF ReadWinner, Go, SetResult, ProcessInv, TypeOK, Settled
  <1>9. CASE RemoveTemporary(p)
    BY <1>1, <1>9 DEF RemoveTemporary, Go, ProcessInv, TypeOK, Settled
  <1>10. CASE Fail(p)
    BY <1>1, <1>10 DEF Fail, SetResult, ProcessInv, TypeOK, Settled
  <1>11. CASE FailToRemove(p) \/ Kill(p)
    BY <1>1, <1>11 DEF FailToRemove, Kill, Go, ProcessInv, TypeOK, Settled
  <1>12. QED BY <1>2, <1>3, <1>4, <1>5, <1>6, <1>7, <1>8, <1>9, <1>10, <1>11 DEF Act, Step

\* What was on the disk stays whole when the machine stops, and nobody is half-way.
LEMMA StopStep ==
    ASSUME IInv, Stop
    PROVE  /\ contents'[Good] = "line" /\ contents'[Bad] = "part"
           /\ \A p \in Processes : ProcessInv(p)'
           /\ NoSpuriousFailure'
  <1>1. TypeOK /\ contents[Good] = "line" /\ contents[Bad] = "part"
    BY DEF IInv
  <1>2. PICK cut \in SUBSET (Processes \ synced) :
            contents' = [file \in Files |-> IF file \in cut /\ contents[file] # "none" THEN "part"
                                            ELSE contents[file]]
    BY DEF Stop
  <1>3. contents'[Good] = "line" /\ contents'[Bad] = "part"
    BY <1>1, <1>2, TokenAssumption DEF Files
  <1>4. ASSUME NEW p \in Processes PROVE ProcessInv(p)'
    <2>1. ProcessInv(p) /\ p \in Files
      BY DEF IInv, Files
    <2>2. pc'[p] = IF pc[p] = "load" THEN "load" ELSE "killed"
      BY DEF Stop
    <2>3. p \in name' => p \in name
      BY DEF Stop
    <2>4. p \in name => contents'[p] = "line" /\ pc'[p] = "killed" /\ p \in synced'
      BY <1>2, <2>1, <2>2 DEF ProcessInv, Settled, Stop
    <2>5. p \in temporaries' => pc'[p] = "killed"
      BY <2>1, <2>2 DEF ProcessInv, Stop
    <2>6. QED BY <2>2, <2>3, <2>4, <2>5 DEF ProcessInv, Settled
  <1>5. NoSpuriousFailure'
    BY DEF Stop, NoSpuriousFailure
  <1>6. QED BY <1>3, <1>4, <1>5

\* Only a failed call, or a file that was no token, makes a process fail.
LEMMA FailureStep ==
    ASSUME IInv, NEW p \in Processes, Act(p)
    PROVE  NoSpuriousFailure'
  <1>1. TypeOK /\ NoSpuriousFailure
    BY DEF IInv
  <1>2. erred \subseteq erred' /\ (name = {Bad} => name' = {Bad})
    <2>1. erred \subseteq erred'
      BY DEF Act, Step, Load, CreateTemporary, WriteToken, WriteLine, SyncAll, HardLink, ReadWinner,
             RemoveTemporary, Fail, FailToRemove, Kill
    <2>2. name' = name \/ name = {}
      BY DEF Act, Step, Load, CreateTemporary, WriteToken, WriteLine, SyncAll, HardLink, ReadWinner,
             RemoveTemporary, Fail, FailToRemove, Kill
    <2>3. QED BY <2>1, <2>2
  <1>3. \A q \in Processes \ {p} : result'[q] = result[q]
    BY Frame
  <1>4. result'[p] = "error" => p \in erred' \/ name' = {Bad} \/ result[p] = "error"
    <2>1. CASE Load(p) \/ ReadWinner(p)
      <3>1. CASE name = {}
        <4>1. Load(p)
          <5>1. ASSUME ReadWinner(p) PROVE FALSE
            BY <3>1, <5>1 DEF ReadWinner, Go, IInv, ProcessInv
          <5>2. QED BY <2>1, <5>1
        <4>2. QED BY <3>1, <4>1 DEF Load
      <3>2. CASE name # {}
        BY <1>1, <1>2, <2>1, <3>2, ReadTokenFacts DEF Load, ReadWinner, SetResult, TypeOK
      <3>3. QED BY <3>1, <3>2
    <2>2. CASE HardLink(p)
      BY <1>1, <2>2, TokenAssumption DEF HardLink, SetResult, TypeOK
    <2>3. CASE Fail(p)
      BY <2>3 DEF Fail
    <2>4. CASE UNCHANGED result
      BY <2>4
    <2>5. QED BY <2>1, <2>2, <2>3, <2>4 DEF Act, Step, CreateTemporary, WriteToken, WriteLine,
                 SyncAll, RemoveTemporary, FailToRemove, Kill
  <1>5. QED BY <1>1, <1>2, <1>3, <1>4 DEF NoSpuriousFailure

LEMMA NextIInv == ASSUME IInv, [Next]_vars PROVE IInv'
  <1>1. TypeOK'
    BY TypeStep
  <1>2. ASSUME NEW p \in Processes, Act(p) PROVE IInv'
    <2>1. \A q \in Processes : ProcessInv(q)'
      BY <1>2, OthersStep, OwnStep
    <2>2. contents'[Good] = "line" /\ contents'[Bad] = "part"
      <3>1. /\ contents \in [Files -> {"none", "part"} \cup Whole]
            /\ contents[Good] = "line" /\ contents[Bad] = "part"
            /\ Good \in Files /\ Bad \in Files /\ p # Good /\ p # Bad
        BY TokenAssumption DEF IInv, TypeOK, Files
      <3>2. contents' = contents \/ \E c : contents' = [contents EXCEPT ![p] = c]
        BY <1>2 DEF Act, Step, Load, CreateTemporary, WriteToken, WriteLine, SyncAll, HardLink,
                    ReadWinner, RemoveTemporary, Fail, FailToRemove, Kill
      <3>3. QED BY <3>1, <3>2
    <2>3. NoSpuriousFailure'
      BY <1>2, FailureStep
    <2>4. QED BY <1>1, <2>1, <2>2, <2>3 DEF IInv
  <1>3. CASE Stop
    BY <1>1, <1>3, StopStep DEF IInv
  <1>4. CASE UNCHANGED vars
    BY <1>4 DEF vars, IInv, TypeOK, ProcessInv, NoSpuriousFailure
  <1>5. QED BY <1>2, <1>3, <1>4 DEF Next, Act

\* The invariant that the others rest on (load_or_create_token_in).
THEOREM Invariance == Spec => []IInv
  <1>1. Init => IInv
    BY InitIInv
  <1>2. IInv /\ [Next]_vars => IInv'
    BY NextIInv
  <1>3. QED BY <1>1, <1>2, PTL DEF Spec

\* What the name mcp-token leads to is a whole token, or what somebody else put
\* there, whatever fails and whenever the machine stops.
THEOREM FileIsWhole == Spec => []NeverPartial
  <1>1. IInv => NeverPartial
    <2>1. SUFFICES ASSUME IInv, NEW file \in name PROVE file = Bad \/ contents[file] \in Whole
      BY DEF NeverPartial
    <2>2. file \in Files
      BY <2>1 DEF IInv, TypeOK
    <2>3. QED BY <2>1, <2>2 DEF IInv, ProcessInv, Files, Whole
  <1>2. QED BY <1>1, Invariance, PTL

\* A process that returns a token returns the one in the file.
THEOREM OneToken == Spec => []Agreement
  <1>1. IInv => Agreement
    BY DEF IInv, ProcessInv, Agreement, Ended, Settled
  <1>2. QED BY <1>1, Invariance, PTL

\* To lose the race for the name is no failure.
THEOREM FailuresHaveCauses == Spec => []NoSpuriousFailure
  <1>1. IInv => NoSpuriousFailure
    BY DEF IInv
  <1>2. QED BY <1>1, Invariance, PTL

\* A process that came to its end leaves no temporary file, unless the removal failed.
THEOREM CleanEnd == Spec => []NoLeftovers
  <1>1. IInv => NoLeftovers
    BY DEF IInv, TypeOK, ProcessInv, NoLeftovers
  <1>2. QED BY <1>1, Invariance, PTL

-----------------------------------------------------------------------------
(* Refinement: the file is a register that is written once *)

\* What TokenRegister sees of the processes.
Answers == [p \in Processes |-> IF Ended(p) THEN result[p] ELSE "none"]

\* A step of p changes at most the answer of p.
LEMMA AnswersOfOthers ==
    ASSUME IInv, NEW p \in Processes, Act(p)
    PROVE  Answers' = [Answers EXCEPT ![p] = IF Ended(p)' THEN result'[p] ELSE "none"]
  <1>1. \A q \in Processes \ {p} : Ended(q)' = Ended(q) /\ result'[q] = result[q]
    BY Frame DEF Ended
  <1>2. QED BY <1>1 DEF Answers

LEMMA RefineStep ==
    ASSUME IInv, NEW p \in Processes, Act(p)
    PROVE  Register!Next \/ (UNCHANGED name /\ Answers' = Answers)
  <1>1. TypeOK /\ ProcessInv(p) /\ ProcessInv(p)'
    BY OwnStep DEF IInv
  <1>2. Answers' = [Answers EXCEPT ![p] = IF Ended(p)' THEN result'[p] ELSE "none"]
    BY AnswersOfOthers
  <1>3. ~Ended(p) /\ Answers[p] = "none"
    BY DEF Act, Step, Load, CreateTemporary, WriteToken, WriteLine, SyncAll, HardLink, ReadWinner,
           RemoveTemporary, Fail, FailToRemove, Kill, Go, Ended, Answers
  <1>4. CASE ~Ended(p)' /\ UNCHANGED name
    <2>1. Answers' = [Answers EXCEPT ![p] = Answers[p]]
      BY <1>2, <1>3, <1>4
    <2>2. QED BY <1>4, <2>1 DEF Answers
  <1>5. CASE Ended(p)' /\ UNCHANGED name
    <2>1. result'[p] \in name \cup {"error"}
      BY <1>1, <1>5 DEF ProcessInv, Ended, Settled
    <2>2. Register!Answer(p)
      BY <1>2, <1>3, <1>5, <2>1 DEF Register!Answer, Register!NoAnswer, Register!Failed, Answers
    <2>3. QED BY <2>2 DEF Register!Next
  <1>6. CASE HardLink(p) /\ name = {}
    <2>1. ~Ended(p)' /\ name' = {p}
      BY <1>1, <1>6 DEF HardLink, Go, Ended, TypeOK
    <2>2. Answers' = Answers
      <3>1. Answers' = [Answers EXCEPT ![p] = Answers[p]]
        BY <1>2, <1>3, <2>1
      <3>2. QED BY <3>1 DEF Answers
    <2>3. Register!Choose(p)
      BY <1>3, <1>6, <2>1, <2>2 DEF Register!Choose, Register!NoAnswer, Answers
    <2>4. QED BY <2>3 DEF Register!Next
  <1>7. UNCHANGED name \/ (HardLink(p) /\ name = {})
    BY DEF Act, Step, Load, CreateTemporary, WriteToken, WriteLine, SyncAll, HardLink, ReadWinner,
           RemoveTemporary, Fail, FailToRemove, Kill
  <1>8. QED BY <1>4, <1>5, <1>6, <1>7

\* The protocol of temporary file and hard link implements a register that is
\* written once and answers everyone the same (load_or_create_token_in).
THEOREM ImplementsRegister == Spec => WrittenOnce
  <1>1. Init => Register!Init
    BY DEF Init, Register!Init, Register!NoAnswer, Ended
  <1>2. IInv /\ [Next]_vars => [Register!Next]_<<name, Answers>>
    <2>1. SUFFICES ASSUME IInv, [Next]_vars PROVE [Register!Next]_<<name, Answers>>
      OBVIOUS
    <2>2. ASSUME NEW p \in Processes, Act(p) PROVE [Register!Next]_<<name, Answers>>
      BY <2>1, <2>2, RefineStep
    <2>3. CASE Stop
      <3>1. name' \in {name} \cup {{}}
        BY <2>3 DEF Stop
      <3>2. Answers' = [p \in Processes |-> "none"]
        BY <2>3 DEF Stop, Answers, Ended
      <3>3. Register!Stop
        BY <3>1, <3>2 DEF Register!Stop, Register!NoAnswer, Answers
      <3>4. QED BY <3>3 DEF Register!Next
    <2>4. CASE UNCHANGED vars
      BY <2>4 DEF vars, Answers, Ended
    <2>5. QED BY <2>1, <2>2, <2>3, <2>4 DEF Next, Act
  <1>3. QED BY <1>1, <1>2, Invariance, PTL DEF Spec, WrittenOnce, Register!Spec, Answers

-----------------------------------------------------------------------------
(* The token of an installation *)

\* Whatever happens to the manifest, the token's part is a behaviour of TokenStore.
LEMMA TokenPartOfStep == ASSUME [InstallNext]_<<vars, manifest_vars>> PROVE [Next]_vars
  BY DEF InstallNext, TokenPart, ManifestPart, StopBoth, Next, vars

LEMMA IsTokenStore == InstallSpec => Spec
  <1>1. InstallInit => Init
    BY DEF InstallInit
  <1>2. QED BY <1>1, TokenPartOfStep, PTL DEF InstallSpec, Spec

\* The token file is whole, one, and cleaned up after, whatever happens to it and
\* to the manifest (load_or_create_token_in, run).
THEOREM TokenStaysSound == InstallSpec => []TokenIsSound
  <1>1. TypeOK /\ NeverPartial /\ NoSpuriousFailure /\ NoLeftovers /\ Agreement => TokenIsSound
    BY DEF TokenIsSound
  <1>2. Spec => []TypeOK
    <2>1. IInv => TypeOK
      BY DEF IInv
    <2>2. QED BY <2>1, Invariance, PTL
  <1>3. QED BY <1>1, <1>2, IsTokenStore, FileIsWhole, FailuresHaveCauses, CleanEnd, OneToken, PTL

\* The token file stays a register that is written once when installations run on
\* to the manifest (run, load_or_create_token_in).
THEOREM TokenStaysWrittenOnce == InstallSpec => WrittenOnce
  BY IsTokenStore, ImplementsRegister, PTL

-----------------------------------------------------------------------------
(* The manifest *)

\* What manifest and registered are.
LEMMA NowFields ==
    /\ Manifest!Now.manifest = manifest /\ Manifest!Now.registered = registered
    /\ Manifest!Now'.manifest = manifest' /\ Manifest!Now'.registered = registered'
  BY DEF Manifest!Now

LEMMA ManifestInit == ASSUME InstallInit PROVE Manifest!IInv
  <1>1. Manifest!Init
    BY DEF InstallInit
  <1>2. manifest \in Manifest!Manifests /\ registered \in {FALSE, Windows}
    BY <1>1, InstallAssumption DEF Manifest!Init, Manifest!Manifests, Manifest!Files
  <1>3. seen = {Manifest!Now} /\ seen \subseteq [manifest : Manifest!Manifests, registered : {FALSE, Windows}]
    <2>1. Manifest!Now \in [manifest : Manifest!Manifests, registered : {FALSE, Windows}]
      BY <1>2 DEF Manifest!Now
    <2>2. QED BY <1>1, <2>1 DEF Manifest!Init
  <1>4. Manifest!TypeOK
    <2>1. stops \in 0..MaxStops
      BY <1>1, TokenAssumption DEF Manifest!Init
    <2>2. QED BY <1>1, <1>2, <1>3, <2>1 DEF Manifest!Init, Manifest!TypeOK, Manifest!Files
  <1>5. manifest \subseteq flushed
    BY <1>1 DEF Manifest!Init
  <1>6. \A now \in seen : now.manifest = manifest
    BY <1>3, NowFields
  <1>7. Manifest!NeverMissing
    BY <1>6 DEF Manifest!NeverMissing
  <1>8. \A p \in Installers : Manifest!InstallerInv(p)
    BY <1>1 DEF Manifest!Init, Manifest!InstallerInv
  <1>9. Manifest!Now \in seen /\ flushed \subseteq whole /\ \A now \in seen : now.manifest \subseteq flushed
    BY <1>1, <1>3, <1>5, <1>6 DEF Manifest!Init
  <1>10. QED BY <1>4, <1>7, <1>8, <1>9 DEF Manifest!IInv

\* The steps of one installation keep the types.
ManifestAct(p) == Manifest!Step(p) \/ Manifest!Fail(p) \/ Manifest!FailToDiscard(p) \/ Manifest!Kill(p)

\* What has been seen, after a step that changes manifest or registered.
LEMMA RememberTypes ==
    ASSUME Manifest!IInv, Manifest!Remember,
           manifest' \in Manifest!Manifests, registered' \in {FALSE, Windows}
    PROVE  seen' \subseteq [manifest : Manifest!Manifests, registered : {FALSE, Windows}]
  <1>1. Manifest!Now' \in [manifest : Manifest!Manifests, registered : {FALSE, Windows}]
    BY DEF Manifest!Now
  <1>2. QED BY <1>1 DEF Manifest!IInv, Manifest!TypeOK, Manifest!Remember

LEMMA ManifestTypes ==
    ASSUME Manifest!IInv, NEW p \in Installers, ManifestAct(p)
    PROVE  Manifest!TypeOK'
  <1>1. Manifest!TypeOK /\ Windows \in BOOLEAN /\ p \in Manifest!Files
    BY InstallAssumption DEF Manifest!IInv, Manifest!Files
  <1>2. CASE Manifest!LoadSettings(p) \/ Manifest!CreateTemporary(p) \/ Manifest!WriteAll(p)
             \/ Manifest!SyncAll(p) \/ Manifest!LookForOld(p) \/ Manifest!Discard(p)
    BY <1>1, <1>2 DEF Manifest!TypeOK, Manifest!LoadSettings, Manifest!CreateTemporary, Manifest!WriteAll,
                      Manifest!SyncAll, Manifest!LookForOld, Manifest!Discard, Manifest!Go
  <1>3. CASE Manifest!RemoveOld(p)
    <2>1. manifest' \in Manifest!Manifests /\ registered' \in {FALSE, Windows} /\ Manifest!Remember
      BY <1>1, <1>3 DEF Manifest!TypeOK, Manifest!RemoveOld, Manifest!Manifests
    <2>2. QED BY <1>1, <1>3, <2>1, RememberTypes DEF Manifest!TypeOK, Manifest!RemoveOld, Manifest!Go
  <1>4. CASE Manifest!Rename(p)
    <2>1. manifest' \in Manifest!Manifests /\ registered' \in {FALSE, Windows} /\ Manifest!Remember
      BY <1>1, <1>4 DEF Manifest!TypeOK, Manifest!Rename, Manifest!Manifests
    <2>2. QED BY <1>1, <1>4, <2>1, RememberTypes DEF Manifest!TypeOK, Manifest!Rename, Manifest!Go
  <1>5. CASE Manifest!Register(p)
    <2>1. Windows
      BY <1>5, InstallAssumption DEF Manifest!IInv, Manifest!InstallerInv, Manifest!Register, Manifest!Go
    <2>2. manifest' \in Manifest!Manifests /\ registered' \in {FALSE, Windows} /\ Manifest!Remember
      BY <1>1, <1>5, <2>1 DEF Manifest!TypeOK, Manifest!Register
    <2>3. QED BY <1>1, <1>5, <2>2, RememberTypes DEF Manifest!TypeOK, Manifest!Register, Manifest!Go
  <1>6. CASE Manifest!Fail(p) \/ Manifest!FailToDiscard(p) \/ Manifest!Kill(p)
    BY <1>1, <1>6 DEF Manifest!TypeOK, Manifest!Fail, Manifest!FailToDiscard, Manifest!Kill, Manifest!Go
  <1>7. QED BY <1>2, <1>3, <1>4, <1>5, <1>6 DEF ManifestAct, Manifest!Step

\* What has been seen is on the disk, and was there before unless it is new.
LEMMA SeenStep ==
    ASSUME Manifest!IInv, NEW p \in Installers, ManifestAct(p)
    PROVE  /\ Manifest!Now' \in seen'
           /\ \A now \in seen' : now \in seen \/ now = Manifest!Now'
           /\ \A now \in seen' : now.manifest \subseteq flushed'
           /\ flushed' \subseteq whole'
  <1>1. /\ Manifest!Now \in seen /\ \A now \in seen : now.manifest \subseteq flushed
        /\ manifest \subseteq flushed /\ flushed \subseteq whole
    BY NowFields DEF Manifest!IInv
  <1>2. CASE UNCHANGED <<manifest, registered, seen>>
    <2>1. flushed \subseteq flushed' /\ flushed' \subseteq whole'
      BY <1>1, <1>2 DEF Manifest!IInv, Manifest!InstallerInv, ManifestAct, Manifest!Step, Manifest!LoadSettings,
                Manifest!CreateTemporary, Manifest!WriteAll, Manifest!SyncAll, Manifest!LookForOld,
                Manifest!RemoveOld, Manifest!Rename, Manifest!Register, Manifest!Discard, Manifest!Fail,
                Manifest!FailToDiscard, Manifest!Kill, Manifest!Go
    <2>2. Manifest!Now' = Manifest!Now
      BY <1>2 DEF Manifest!Now
    <2>3. QED BY <1>1, <1>2, <2>1, <2>2
  <1>3. CASE Manifest!RemoveOld(p) \/ Manifest!Rename(p) \/ Manifest!Register(p)
    <2>1. Manifest!Remember /\ UNCHANGED <<whole, flushed>>
      BY <1>3 DEF Manifest!RemoveOld, Manifest!Rename, Manifest!Register
    <2>2. manifest' \subseteq flushed
      BY <1>1, <1>3 DEF Manifest!RemoveOld, Manifest!Rename, Manifest!Register, Manifest!IInv,
                        Manifest!InstallerInv, Manifest!Go
    <2>3. seen' = seen \cup {Manifest!Now'}
      BY <2>1 DEF Manifest!Remember
    <2>4. QED BY <1>1, <2>1, <2>2, <2>3, NowFields
  <1>4. QED BY <1>2, <1>3 DEF ManifestAct, Manifest!Step, Manifest!LoadSettings, Manifest!CreateTemporary,
               Manifest!WriteAll, Manifest!SyncAll, Manifest!LookForOld, Manifest!Discard, Manifest!Fail,
               Manifest!FailToDiscard, Manifest!Kill

\* Who removes the manifest is about to rename, until it has done so or has failed.
LEMMA MissingStep ==
    ASSUME Manifest!IInv, NEW p \in Installers, ManifestAct(p)
    PROVE  Manifest!NeverMissing'
  <1>1. SUFFICES ASSUME manifest' = {}, NEW now \in seen', now.manifest # {}
                 PROVE  Windows /\ \E q \in Installers : at'[q] = "rename" \/ q \in failed'
    BY DEF Manifest!NeverMissing
  <1>2. now \in seen
    BY <1>1, SeenStep, NowFields
  <1>3. Manifest!TypeOK /\ Manifest!NeverMissing
    BY DEF Manifest!IInv
  <1>4. CASE Manifest!RemoveOld(p)
    <2>1. Windows
      BY <1>4 DEF Manifest!IInv, Manifest!InstallerInv, Manifest!RemoveOld, Manifest!Go
    <2>2. at'[p] = "rename" \/ p \in failed'
      BY <1>3, <1>4 DEF Manifest!TypeOK, Manifest!RemoveOld, Manifest!Go
    <2>3. QED BY <2>1, <2>2
  <1>5. ~Manifest!Rename(p)
    BY <1>1 DEF Manifest!Rename
  <1>6. CASE UNCHANGED manifest /\ ~Manifest!RemoveOld(p)
    <2>1. PICK q \in Installers : at[q] = "rename" \/ q \in failed
      BY <1>1, <1>2, <1>3, <1>6 DEF Manifest!NeverMissing
    <2>2. Windows
      BY <1>1, <1>2, <1>3, <1>6 DEF Manifest!NeverMissing
    <2>3. failed \subseteq failed'
      BY DEF ManifestAct, Manifest!Step, Manifest!LoadSettings, Manifest!CreateTemporary,
             Manifest!WriteAll, Manifest!SyncAll, Manifest!LookForOld, Manifest!RemoveOld, Manifest!Rename,
             Manifest!Register, Manifest!Discard, Manifest!Fail, Manifest!FailToDiscard, Manifest!Kill
    <2>4. q \in failed' \/ at'[q] = "rename"
      BY <1>3, <1>5, <1>6, <2>1, <2>3
         DEF Manifest!TypeOK, ManifestAct, Manifest!Step, Manifest!LoadSettings, Manifest!CreateTemporary,
             Manifest!WriteAll, Manifest!SyncAll, Manifest!LookForOld, Manifest!Register, Manifest!Discard,
             Manifest!Fail, Manifest!FailToDiscard, Manifest!Kill, Manifest!Go
    <2>5. QED BY <2>2, <2>4
  <1>7. QED BY <1>4, <1>5, <1>6 DEF ManifestAct, Manifest!Step, Manifest!LoadSettings,
               Manifest!CreateTemporary, Manifest!WriteAll, Manifest!SyncAll, Manifest!LookForOld,
               Manifest!Register, Manifest!Discard, Manifest!Fail, Manifest!FailToDiscard, Manifest!Kill

\* How far each installation is, after a step of p.
LEMMA InstallersStep ==
    ASSUME Manifest!IInv, NEW p \in Installers, ManifestAct(p), NEW q \in Installers
    PROVE  Manifest!InstallerInv(q)'
  <1>1. Manifest!TypeOK /\ Manifest!TypeOK' /\ Manifest!InstallerInv(q) /\ Manifest!InstallerInv(p)
    BY ManifestTypes DEF Manifest!IInv
  <1>2. CASE Manifest!LoadSettings(p)
    BY <1>1, <1>2 DEF Manifest!InstallerInv, Manifest!TypeOK, Manifest!LoadSettings, Manifest!Go
  <1>3. CASE Manifest!CreateTemporary(p)
    BY <1>1, <1>3 DEF Manifest!InstallerInv, Manifest!TypeOK, Manifest!CreateTemporary, Manifest!Go
  <1>4. CASE Manifest!WriteAll(p)
    BY <1>1, <1>4 DEF Manifest!InstallerInv, Manifest!TypeOK, Manifest!WriteAll, Manifest!Go
  <1>5. CASE Manifest!SyncAll(p)
    BY <1>1, <1>5, InstallAssumption DEF Manifest!InstallerInv, Manifest!TypeOK, Manifest!SyncAll, Manifest!Go
  <1>6. CASE Manifest!LookForOld(p)
    BY <1>1, <1>6 DEF Manifest!InstallerInv, Manifest!TypeOK, Manifest!LookForOld, Manifest!Go
  <1>7. CASE Manifest!RemoveOld(p)
    BY <1>1, <1>7 DEF Manifest!InstallerInv, Manifest!TypeOK, Manifest!RemoveOld, Manifest!Go
  <1>8. CASE Manifest!Rename(p)
    <2>1. /\ \A r \in Installers \ {p} : at'[r] = at[r]
          /\ at[p] = "rename" /\ at'[p] \in {"register", "done"} /\ manifest' = {p}
          /\ at'[p] = IF Windows THEN "register" ELSE "done"
          /\ drafts' = drafts \ {p} /\ UNCHANGED <<whole, flushed, registered, failed>>
      BY <1>1, <1>8 DEF Manifest!TypeOK, Manifest!Rename, Manifest!Go
    <2>2. ~Windows => registered = Windows
      BY <1>1, InstallAssumption DEF Manifest!TypeOK
    <2>3. QED BY <1>1, <2>1, <2>2, InstallAssumption DEF Manifest!InstallerInv
  <1>9. CASE Manifest!Register(p)
    BY <1>1, <1>9, InstallAssumption DEF Manifest!InstallerInv, Manifest!TypeOK, Manifest!Register, Manifest!Go
  <1>10. CASE Manifest!Discard(p) \/ Manifest!FailToDiscard(p)
    BY <1>1, <1>10 DEF Manifest!InstallerInv, Manifest!TypeOK, Manifest!Discard, Manifest!FailToDiscard, Manifest!Go
  <1>11. CASE Manifest!Fail(p)
    BY <1>1, <1>11 DEF Manifest!InstallerInv, Manifest!TypeOK, Manifest!Fail
  <1>12. CASE Manifest!Kill(p)
    BY <1>1, <1>12 DEF Manifest!InstallerInv, Manifest!TypeOK, Manifest!Kill
  <1>13. QED BY <1>2, <1>3, <1>4, <1>5, <1>6, <1>7, <1>8, <1>9, <1>10, <1>11, <1>12
             DEF ManifestAct, Manifest!Step

LEMMA ManifestStep ==
    ASSUME Manifest!IInv, NEW p \in Installers, ManifestAct(p)
    PROVE  Manifest!IInv'
  BY ManifestTypes, SeenStep, MissingStep, InstallersStep DEF Manifest!IInv

\* What the machine finds when it starts again has been there before, on the disk.
LEMMA ManifestStop == ASSUME Manifest!IInv, Manifest!Stop PROVE Manifest!IInv'
  <1>1. Manifest!TypeOK /\ \A now \in seen : now.manifest \subseteq flushed
    BY DEF Manifest!IInv
  <1>2. PICK cut \in SUBSET (whole \ flushed) : whole' = whole \ cut
    BY DEF Manifest!Stop
  <1>3. flushed \subseteq whole' /\ flushed' = whole' /\ whole' \subseteq whole
    BY <1>2 DEF Manifest!Stop, Manifest!IInv
  <1>4. manifest' \in Manifest!Manifests /\ manifest' \subseteq flushed
    BY <1>1 DEF Manifest!Stop, Manifest!TypeOK
  <1>5. registered' \in {FALSE, Windows}
    BY <1>1 DEF Manifest!Stop, Manifest!TypeOK
  <1>6. /\ seen' = {Manifest!Now'}
        /\ Manifest!Now' \in [manifest : Manifest!Manifests, registered : {FALSE, Windows}]
    BY <1>4, <1>5 DEF Manifest!Stop, Manifest!Now
  <1>7. stops' \in 0..MaxStops
    BY <1>1, TokenAssumption DEF Manifest!Stop, Manifest!TypeOK
  <1>8. Manifest!TypeOK'
    BY <1>1, <1>3, <1>4, <1>5, <1>6, <1>7 DEF Manifest!Stop, Manifest!TypeOK
  <1>9. Manifest!Now' \in seen' /\ \A now \in seen' : now.manifest \subseteq flushed' /\ now.manifest = manifest'
    BY <1>3, <1>4, <1>6, NowFields
  <1>10. Manifest!NeverMissing'
    BY <1>9 DEF Manifest!NeverMissing
  <1>11. ASSUME NEW p \in Installers PROVE Manifest!InstallerInv(p)'
    <2>1. at'[p] \in {"settings", "killed"} /\ (p \in drafts' => at[p] # "settings")
      BY DEF Manifest!Stop
    <2>2. p \in drafts' => at'[p] = "killed"
      BY <2>1 DEF Manifest!Stop
    <2>3. QED BY <2>1, <2>2 DEF Manifest!InstallerInv
  <1>12. QED BY <1>3, <1>8, <1>9, <1>10, <1>11 DEF Manifest!IInv

LEMMA ManifestInvariance == InstallSpec => []Manifest!IInv
  <1>1. InstallInit => Manifest!IInv
    BY ManifestInit
  <1>2. Manifest!IInv /\ [InstallNext]_<<vars, manifest_vars>> => Manifest!IInv'
    <2>1. SUFFICES ASSUME Manifest!IInv, [InstallNext]_<<vars, manifest_vars>> PROVE Manifest!IInv'
      OBVIOUS
    <2>2. CASE StopBoth
      BY <2>1, <2>2, ManifestStop DEF StopBoth
    <2>3. ASSUME NEW p \in Installers, ManifestPart(p) PROVE Manifest!IInv'
      BY <2>1, <2>3, ManifestStep DEF ManifestPart, ManifestAct
    <2>4. CASE UNCHANGED <<manifest_vars, stops>>
      BY <2>1, <2>4 DEF manifest_vars, Manifest!IInv, Manifest!InstallerInv, Manifest!NeverMissing,
                        Manifest!Now, Manifest!TypeOK
    <2>5. ASSUME NEW p \in Processes, TokenPart(p) PROVE UNCHANGED <<manifest_vars, stops>>
      BY <2>5 DEF TokenPart, Step, Load, CreateTemporary, WriteToken, WriteLine, SyncAll, HardLink,
                  ReadWinner, RemoveTemporary, Fail, FailToRemove, Kill
    <2>6. QED BY <2>1, <2>2, <2>3, <2>4, <2>5 DEF InstallNext, vars
  <1>3. QED BY <1>1, <1>2, PTL DEF InstallSpec

\* A manifest that is there is whole, whatever is lost when the machine stops; it is
\* missing only while or after one is replaced on Windows; installations that have
\* ended leave one, registered, if none has failed since the machine started; and
\* no temporary file unless its removal failed (install_manifest, write_manifest).
THEOREM ManifestStaysSound == InstallSpec => []ManifestIsSound
  <1>1. Manifest!IInv => ManifestIsSound
    <2>1. SUFFICES ASSUME Manifest!IInv PROVE ManifestIsSound
      OBVIOUS
    <2>2. Manifest!TypeOK /\ Manifest!NeverMissing
      BY <2>1 DEF Manifest!IInv
    <2>3. Manifest!NeverPartial
      BY <2>1, NowFields DEF Manifest!IInv, Manifest!NeverPartial
    <2>4. Manifest!NoLeftovers
      BY <2>1 DEF Manifest!IInv, Manifest!InstallerInv, Manifest!TypeOK, Manifest!NoLeftovers
    <2>5. Manifest!GoodEnd
      <3>1. SUFFICES ASSUME \A p \in Installers : at[p] \in {"settings", "done", "killed"},
                            NEW p \in Installers, at[p] = "done", failed = {}
                     PROVE  /\ \E q \in Installers : manifest = {q} /\ at[q] = "done"
                            /\ registered = Windows
        BY DEF Manifest!GoodEnd
      <3>2. QED BY <2>1, <3>1 DEF Manifest!IInv, Manifest!InstallerInv
    <2>6. QED BY <2>2, <2>3, <2>4, <2>5 DEF ManifestIsSound, Manifest!ManifestIsSound
  <1>2. QED BY <1>1, ManifestInvariance, PTL

=============================================================================
