---------------------------- MODULE ClaimMetadata ----------------------------
(***************************************************************************)
(* The device metadata files of one claim (internal/metadata): one file    *)
(* per request, rewritten by every Prepare of the claim, removed by        *)
(* Unprepare and by the garbage collection.  A file carries a generation   *)
(* by which its reader caches the content.  os.WriteFile truncates before  *)
(* it writes, and the process can die in between.                          *)
(***************************************************************************)
EXTENDS Integers, FiniteSets

CONSTANTS
    Requests,       \* the requests of the claim
    NoRequest,
    Contents,       \* what a file can say, its generation aside
    MaxGeneration   \* bound: no rewrite past this generation

ASSUME ClaimMetadataAssumption ==
    /\ NoRequest \notin Requests
    /\ MaxGeneration \in Nat \ {0}

VARIABLES
    file,       \* [Requests -> Files]
    pc,         \* the next step of the process
    params,     \* [Requests -> Contents]: ClaimParams of the running call
    todo,       \* the requests the call has left
    cur,        \* the request it is writing
    generation, \* the generation it resolved for it
    written,    \* history: [Requests -> SUBSET Whole]: what a reader may have seen
                \* since the file was created
    lost        \* history: the requests whose generation was lost since then,
                \* to a torn file or to one that could not be read

vars == <<file, pc, params, todo, cur, generation, written, lost>>
callVars == <<pc, params, todo, cur, generation>>

Generations == 1 .. MaxGeneration
Whole == [generation : Generations, content : Contents]
Missing == [generation |-> 0, content |-> "missing"]
Torn == [generation |-> 0, content |-> "torn"]
IsWhole(f) == f.generation > 0

TypeOK ==
    /\ file \in [Requests -> Whole \cup {Missing, Torn}]
    /\ pc \in {"idle", "request", "truncate", "write"}
    /\ params \in [Requests -> Contents]
    /\ todo \subseteq Requests
    /\ cur \in Requests \cup {NoRequest}
    /\ generation \in 0 .. MaxGeneration
    /\ written \in [Requests -> SUBSET Whole]
    /\ lost \subseteq Requests

Init ==
    /\ file = [r \in Requests |-> Missing]
    /\ pc = "idle"
    /\ params \in [Requests -> Contents]
    /\ todo = {}
    /\ cur = NoRequest
    /\ generation = 0
    /\ written = [r \in Requests |-> {}]
    /\ lost = {}

-----------------------------------------------------------------------------
(* GenerateClaimMetadata *)

\* A Prepare of the claim: a retry, or one by a restarted, perhaps upgraded,
\* driver that has more to say.
GenerateClaimMetadata(contents) ==
    /\ pc = "idle"
    /\ \A r \in Requests : file[r].generation < MaxGeneration
    /\ params' = contents
    /\ todo' = Requests
    /\ pc' = "request"
    /\ UNCHANGED <<file, cur, generation, written, lost>>

\* Mutant: every rewrite is a new generation.
ResolvedAlways(prev, content) == prev.generation + 1

\* Mutant: a first write leaves the field at its zero value.
ResolvedFromZero(prev, content) ==
    IF ~IsWhole(prev) \/ prev.content = content THEN prev.generation
    ELSE prev.generation + 1

\* The generation of the next write.  It is kept when the rendering is the one
\* on disk; a file that is missing or does not parse restarts it.
Resolved(prev, content) ==
    IF ~IsWhole(prev) THEN 1
    ELSE IF prev.content = content THEN prev.generation
    ELSE prev.generation + 1

\* The loop takes its next request, in the random order of a Go map, and reads
\* the previous file.  A failed read counts as no file.
ReadPrevious(r, ok) ==
    /\ pc = "request"
    /\ r \in todo
    /\ todo' = todo \ {r}
    /\ cur' = r
    /\ generation' = Resolved(IF ok THEN file[r] ELSE Missing, params[r])
    /\ lost' = IF ~ok /\ IsWhole(file[r]) THEN lost \cup {r} ELSE lost
    /\ pc' = "truncate"
    /\ UNCHANGED <<file, params, written>>

\* The call ends, with or without an error.
EndCall ==
    /\ pc' = "idle"
    /\ todo' = {}
    /\ cur' = NoRequest
    /\ generation' = 0
    /\ UNCHANGED params

\* The directory or the file cannot be opened.
OpenFails ==
    /\ pc = "truncate"
    /\ EndCall
    /\ UNCHANGED <<file, written, lost>>

\* os.WriteFile, first half.
Truncate ==
    /\ pc = "truncate"
    /\ file' = [file EXCEPT ![cur] = Torn]
    /\ pc' = "write"
    /\ UNCHANGED <<params, todo, cur, generation, written, lost>>

\* os.WriteFile, second half.
WriteFile ==
    /\ pc = "write"
    /\ LET whole == [generation |-> generation, content |-> params[cur]] IN
          /\ file' = [file EXCEPT ![cur] = whole]
          /\ written' = [written EXCEPT ![cur] = @ \cup {whole}]
    /\ pc' = "request"
    /\ cur' = NoRequest
    /\ generation' = 0
    /\ UNCHANGED <<params, todo, lost>>

\* Mutant: the loop goes on with the next request.
WriteFailsGoesOn ==
    /\ pc = "write"
    /\ lost' = lost \cup {cur}
    /\ pc' = "request"
    /\ cur' = NoRequest
    /\ generation' = 0
    /\ UNCHANGED <<params, todo, file, written>>

\* The write fails after the truncation.
WriteFails ==
    /\ pc = "write"
    /\ lost' = lost \cup {cur}
    /\ EndCall
    /\ UNCHANGED <<file, written>>

\* Every request is written: the call succeeds.
Generated ==
    /\ pc = "request"
    /\ todo = {}
    /\ EndCall
    /\ UNCHANGED <<file, written, lost>>

-----------------------------------------------------------------------------

Crash ==
    /\ pc # "idle"
    /\ lost' = IF pc = "write" THEN lost \cup {cur} ELSE lost
    /\ EndCall
    /\ UNCHANGED <<file, written>>

\* DeleteClaimMetadata of Unprepare, or GCStaleClaimMetadata at a start.  When
\* it fails, or the process dies, some of the files are left.
DeleteClaimMetadata(removed) ==
    /\ pc = "idle"
    /\ removed # {}
    /\ \A r \in removed : file[r] # Missing
    /\ file' = [r \in Requests |-> IF r \in removed THEN Missing ELSE file[r]]
    /\ written' = [r \in Requests |-> IF r \in removed THEN {} ELSE written[r]]
    /\ lost' = lost \ removed
    /\ UNCHANGED callVars

Next ==
    \/ \E contents \in [Requests -> Contents] : GenerateClaimMetadata(contents)
    \/ \E r \in Requests, ok \in BOOLEAN : ReadPrevious(r, ok)
    \/ OpenFails
    \/ Truncate
    \/ WriteFile
    \/ WriteFails
    \/ Generated
    \/ Crash
    \/ \E removed \in SUBSET Requests : DeleteClaimMetadata(removed)

Spec == Init /\ [][Next]_vars

-----------------------------------------------------------------------------
(* Properties *)

\* A reader that caches by generation sees every change of the content, and
\* only changes: while a file exists and its generation was never lost to the
\* writer, one generation stands for one content, the file has the latest, and
\* each generation differs from the one before (the KEP-5304 lifecycle that
\* GenerateClaimMetadata implements).  A torn or unreadable file restarts at
\* generation 1, so without the exception two contents share a generation.
GenerationNamesContent ==
    \A r \in Requests \ lost :
        /\ \A f, g \in written[r] :
              /\ f.generation = g.generation => f = g
              /\ g.generation = f.generation + 1 => f.content # g.content
        /\ IsWhole(file[r]) =>
              \A f \in written[r] : f.generation <= file[r].generation

\* A call that succeeds leaves every file whole, with the content it was called
\* with, whatever state an earlier call, a crash or a failed removal left.
SuccessLeavesFilesWhole ==
    [][Generated => \A r \in Requests : /\ IsWhole(file'[r])
                                        /\ file'[r].content = params[r]]_vars
=============================================================================
