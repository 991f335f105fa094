--------------------------- MODULE MetadataProofs ---------------------------
(***************************************************************************)
(* The generations of the metadata files, for any set of requests and      *)
(* contents.  The inductive invariant follows a generation through the     *)
(* call: what ReadPrevious resolves still fits when WriteFile uses it.     *)
(***************************************************************************)
EXTENDS ClaimMetadata, TLAPS

\* What the running call has already written.
WrittenSoFar ==
    pc # "idle" =>
        \A r \in Requests \ (todo \cup {cur}) :
            IsWhole(file[r]) /\ file[r].content = params[r]

\* Where the call stands.
CallOK ==
    /\ pc \in {"truncate", "write"} => cur \in Requests /\ generation \in Generations
    /\ pc \in {"idle", "request"} => cur = NoRequest
    /\ pc = "idle" => todo = {}
    /\ cur \notin todo
    /\ \A r \in todo : file[r].generation < MaxGeneration

\* The file of r and its history agree.
FileOK(r) ==
    /\ \A f, g \in written[r] :
          /\ f.generation = g.generation => f = g
          /\ g.generation = f.generation + 1 => f.content # g.content
    /\ IsWhole(file[r]) =>
          /\ file[r] \in written[r]
          /\ \A f \in written[r] : f.generation <= file[r].generation
    /\ ~IsWhole(file[r]) => written[r] = {} \/ (pc = "write" /\ cur = r)

\* A file with this generation and content may follow what r's readers saw.
Fits(r, gen, content) ==
    \A f \in written[r] :
        /\ f.generation <= gen
        /\ f.generation = gen => f.content = content
        /\ gen = f.generation + 1 => f.content # content

GenerationInv ==
    /\ \A r \in Requests \ lost : FileOK(r)
    /\ pc \in {"truncate", "write"} /\ cur \notin lost =>
          Fits(cur, generation, params[cur])

MetadataInv == TypeOK /\ CallOK /\ WrittenSoFar /\ GenerationInv

-----------------------------------------------------------------------------

\* Init establishes the invariant: nothing is written yet.
LEMMA MetadataInit == Init => MetadataInv
  BY ClaimMetadataAssumption
     DEF Init, MetadataInv, TypeOK, CallOK, WrittenSoFar, GenerationInv, FileOK,
         IsWhole, Missing, Torn, Whole, Generations

\* Every step keeps the types and the control state of the call.
LEMMA MetadataCall ==
    TypeOK /\ CallOK /\ [Next]_vars => TypeOK' /\ CallOK'
  <1> SUFFICES ASSUME TypeOK, CallOK, [Next]_vars
               PROVE  TypeOK' /\ CallOK'
    OBVIOUS
  <1> USE ClaimMetadataAssumption
      DEF TypeOK, CallOK, Whole, Generations, Missing, Torn, IsWhole
  <1>1. ASSUME NEW contents \in [Requests -> Contents], GenerateClaimMetadata(contents)
        PROVE  TypeOK' /\ CallOK'
    BY <1>1 DEF GenerateClaimMetadata
  <1>2. ASSUME NEW r \in Requests, NEW ok \in BOOLEAN, ReadPrevious(r, ok)
        PROVE  TypeOK' /\ CallOK'
    <2>1. generation' \in Generations
      BY <1>2 DEF ReadPrevious, Resolved
    <2> QED
      BY <1>2, <2>1 DEF ReadPrevious
  <1>3. CASE OpenFails
    BY <1>3 DEF OpenFails, EndCall
  <1>4. CASE Truncate
    BY <1>4 DEF Truncate
  <1>5. CASE WriteFile
    BY <1>5 DEF WriteFile
  <1>6. CASE WriteFails
    BY <1>6 DEF WriteFails, EndCall
  <1>7. CASE Generated
    BY <1>7 DEF Generated, EndCall
  <1>8. CASE Crash
    BY <1>8 DEF Crash, EndCall
  <1>9. ASSUME NEW removed \in SUBSET Requests, DeleteClaimMetadata(removed)
        PROVE  TypeOK' /\ CallOK'
    BY <1>9 DEF DeleteClaimMetadata, callVars
  <1>10. CASE UNCHANGED vars
    BY <1>10 DEF vars
  <1> QED
    BY <1>1, <1>2, <1>3, <1>4, <1>5, <1>6, <1>7, <1>8, <1>9, <1>10 DEF Next

\* A request the call is done with has its file whole and up to date: only
\* WriteFile takes a request off the list, and only the call writes.
LEMMA MetadataWritten ==
    TypeOK /\ CallOK /\ WrittenSoFar /\ [Next]_vars => WrittenSoFar'
  <1> SUFFICES ASSUME TypeOK, CallOK, WrittenSoFar, [Next]_vars
               PROVE  WrittenSoFar'
    OBVIOUS
  <1> USE ClaimMetadataAssumption DEF TypeOK, CallOK, WrittenSoFar, IsWhole, Generations
  <1>1. ASSUME NEW contents \in [Requests -> Contents], GenerateClaimMetadata(contents)
        PROVE  WrittenSoFar'
    BY <1>1 DEF GenerateClaimMetadata
  <1>2. ASSUME NEW r \in Requests, NEW ok \in BOOLEAN, ReadPrevious(r, ok)
        PROVE  WrittenSoFar'
    BY <1>2 DEF ReadPrevious
  <1>3. CASE OpenFails \/ WriteFails \/ Generated \/ Crash
    BY <1>3 DEF OpenFails, WriteFails, Generated, Crash, EndCall
  <1>4. CASE Truncate
    BY <1>4 DEF Truncate
  <1>5. CASE WriteFile
    BY <1>5 DEF WriteFile
  <1>6. ASSUME NEW removed \in SUBSET Requests, DeleteClaimMetadata(removed)
        PROVE  WrittenSoFar'
    BY <1>6 DEF DeleteClaimMetadata, callVars
  <1>7. CASE UNCHANGED vars
    BY <1>7 DEF vars
  <1> QED
    BY <1>1, <1>2, <1>3, <1>4, <1>5, <1>6, <1>7 DEF Next

-----------------------------------------------------------------------------

\* What Resolved returns for the file on disk may follow everything that was
\* written: the same generation for the same content, the next for another.
LEMMA ResolvedFits ==
    ASSUME TypeOK, CallOK, NEW r \in Requests, FileOK(r), pc = "request"
    PROVE  Fits(r, Resolved(file[r], params[r]), params[r])
  <1>1. CASE ~IsWhole(file[r])
    BY <1>1 DEF FileOK, Fits
  <1>2. CASE IsWhole(file[r])
    <2>1. /\ file[r] \in written[r]
          /\ \A f \in written[r] : f.generation <= file[r].generation
          /\ \A f \in written[r] : f.generation = file[r].generation => f = file[r]
          /\ \A f \in written[r] : file[r].generation = f.generation + 1 =>
                                      f.content # file[r].content
      BY <1>2 DEF FileOK
    <2>2. \A f \in written[r] : f.generation \in Nat
      BY ClaimMetadataAssumption DEF TypeOK, Whole, Generations
    <2> QED
      BY <1>2, <2>1, <2>2 DEF Resolved, Fits
  <1> QED
    BY <1>1, <1>2

\* Every step keeps files, histories and the resolved generation consistent.
LEMMA MetadataGenerations ==
    TypeOK /\ CallOK /\ GenerationInv /\ [Next]_vars => GenerationInv'
  <1> SUFFICES ASSUME TypeOK, CallOK, GenerationInv, [Next]_vars
               PROVE  GenerationInv'
    OBVIOUS
  <1>1. ASSUME NEW contents \in [Requests -> Contents], GenerateClaimMetadata(contents)
        PROVE  GenerationInv'
    BY <1>1 DEF GenerateClaimMetadata, GenerationInv, FileOK, IsWhole
  <1>2. ASSUME NEW r \in Requests, NEW ok \in BOOLEAN, ReadPrevious(r, ok)
        PROVE  GenerationInv'
    <2>1. \A s \in Requests \ lost' : FileOK(s)'
      BY <1>2 DEF ReadPrevious, GenerationInv, FileOK, IsWhole
    <2>2. ASSUME r \notin lost'
          PROVE  Fits(r, generation', params[r])
      <3>1. FileOK(r) /\ pc = "request"
        BY <1>2, <2>2 DEF ReadPrevious, GenerationInv
      <3>2. CASE ok
        BY <1>2, <3>1, <3>2, ResolvedFits DEF ReadPrevious
      <3>3. CASE ~ok
        <4>1. ~IsWhole(file[r])
          BY <1>2, <2>2, <3>3 DEF ReadPrevious
        <4> QED
          BY <3>1, <4>1 DEF FileOK, Fits
      <3> QED
        BY <3>2, <3>3
    <2> QED
      BY <1>2, <2>1, <2>2 DEF ReadPrevious, GenerationInv, Fits
  <1>3. CASE OpenFails \/ Generated
    BY <1>3 DEF OpenFails, Generated, EndCall, GenerationInv, FileOK, IsWhole
  <1>4. CASE Truncate
    BY <1>4 DEF Truncate, GenerationInv, FileOK, Fits, IsWhole, Torn, TypeOK, CallOK
  <1>5. CASE WriteFile
    <2> DEFINE whole == [generation |-> generation, content |-> params[cur]]
    <2>1. /\ pc = "write" /\ pc' = "request"
          /\ cur \in Requests /\ generation \in Generations
          /\ file' = [file EXCEPT ![cur] = whole]
          /\ written' = [written EXCEPT ![cur] = @ \cup {whole}]
          /\ lost' = lost
      BY <1>5 DEF WriteFile, CallOK
    <2>2. ASSUME NEW r \in Requests \ lost, r # cur
          PROVE  FileOK(r)'
      BY <2>1, <2>2 DEF GenerationInv, FileOK, IsWhole, TypeOK
    <2>3. ASSUME NEW r \in Requests \ lost, r = cur
          PROVE  FileOK(r)'
      <3>1. Fits(cur, generation, params[cur]) /\ FileOK(cur)
        BY <2>1, <2>3 DEF GenerationInv
      <3>2. file'[cur] = whole /\ written'[cur] = written[cur] \cup {whole}
        BY <2>1 DEF TypeOK
      <3>3. written[cur] \subseteq Whole /\ whole \in Whole
        BY <2>1 DEF TypeOK, Whole
      <3>4. \A f \in Whole : f = [generation |-> f.generation, content |-> f.content]
        BY DEF Whole
      <3>5. ASSUME NEW f \in written'[cur]
            PROVE  f.generation <= generation
        BY <3>1, <3>2, <3>3, <2>1, ClaimMetadataAssumption DEF Fits, Whole, Generations
      <3>6. ASSUME NEW f \in written'[cur], NEW g \in written'[cur]
            PROVE  /\ f.generation = g.generation => f = g
                   /\ g.generation = f.generation + 1 => f.content # g.content
        <4>1. CASE f \in written[cur] /\ g \in written[cur]
          BY <3>1, <4>1 DEF FileOK
        <4>2. CASE f = whole /\ g = whole
          BY <4>2, <2>1, ClaimMetadataAssumption DEF Generations
        <4>3. CASE f \in written[cur] /\ g = whole
          BY <4>3, <3>1, <3>3, <3>4 DEF Fits
        <4>4. CASE f = whole /\ g \in written[cur]
          <5>1. g.generation <= generation /\ g.generation \in Nat /\ generation \in Nat
            BY <4>4, <3>1, <3>3, <2>1, ClaimMetadataAssumption DEF Fits, Whole, Generations
          <5> QED
            BY <5>1, <4>4, <3>1, <3>3, <3>4 DEF Fits
        <4> QED
          BY <3>2, <4>1, <4>2, <4>3, <4>4
      <3> QED
        BY <3>2, <3>5, <3>6, <2>1, <2>3, ClaimMetadataAssumption
           DEF FileOK, IsWhole, Generations
    <2> QED
      BY <2>1, <2>2, <2>3 DEF GenerationInv
  <1>6. CASE WriteFails \/ Crash
    BY <1>6 DEF WriteFails, Crash, EndCall, GenerationInv, FileOK, IsWhole
  <1>7. ASSUME NEW removed \in SUBSET Requests, DeleteClaimMetadata(removed)
        PROVE  GenerationInv'
    BY <1>7 DEF DeleteClaimMetadata, callVars, GenerationInv, FileOK, IsWhole, Missing,
                TypeOK
  <1>8. CASE UNCHANGED vars
    BY <1>8 DEF vars, GenerationInv, FileOK, Fits, IsWhole
  <1> QED
    BY <1>1, <1>2, <1>3, <1>4, <1>5, <1>6, <1>7, <1>8 DEF Next

-----------------------------------------------------------------------------

\* The invariant holds in every state.
LEMMA MetadataInvariant == Spec => []MetadataInv
  <1>1. MetadataInv /\ [Next]_vars => MetadataInv'
    BY MetadataCall, MetadataWritten, MetadataGenerations DEF MetadataInv
  <1> QED
    BY <1>1, MetadataInit, PTL DEF Spec

\* A metadata file is whole, torn or missing, and its generation within bounds,
\* whatever the order of the writes, their failures and the crashes.
THEOREM MetadataTypes == Spec => []TypeOK
  <1>1. MetadataInv => TypeOK
    BY DEF MetadataInv
  <1> QED
    BY <1>1, MetadataInvariant, PTL

\* Whatever calls, failures, crashes and removals come in whatever order, a
\* generation of GenerateClaimMetadata stands for one content.
THEOREM GenerationsNameContents == Spec => []GenerationNamesContent
  <1>1. MetadataInv => GenerationNamesContent
    BY DEF MetadataInv, GenerationInv, FileOK, GenerationNamesContent
  <1> QED
    BY <1>1, MetadataInvariant, PTL

\* A GenerateClaimMetadata that succeeds has written every file of the claim.
THEOREM SuccessIsComplete == Spec => SuccessLeavesFilesWhole
  <1>1. MetadataInv /\ [Next]_vars =>
           [Generated => \A r \in Requests : /\ IsWhole(file'[r])
                                             /\ file'[r].content = params[r]]_vars
    BY ClaimMetadataAssumption
       DEF MetadataInv, WrittenSoFar, CallOK, Generated, IsWhole
  <1> QED
    BY <1>1, MetadataInvariant, PTL DEF Spec, SuccessLeavesFilesWhole
=============================================================================
