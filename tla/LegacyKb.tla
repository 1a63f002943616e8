------------------------------ MODULE LegacyKb ------------------------------
(***************************************************************************)
(* srv/projects/kb/app/main.py, the compatibility service: upload_document *)
(* and chat over the files directory, the vector store, the fallback list, *)
(* the conversation store and the long-term memory (app/memory/store.py),  *)
(* with failing stores and restarts.                                       *)
(*                                                                         *)
(* The calls run one after the other on the event loop. A file's content   *)
(* and an exchange are known by the number of the call that brought them.  *)
(* The application's stores take the filters of a search as a keyword the  *)
(* wrapped search does not pass: search_chunks always ends at the fallback.*)
(***************************************************************************)
EXTENDS Naturals, Sequences

CONSTANTS
    SummaryAfter,       \* chat_summary_trigger
    MemoryWindow,       \* exchanges load_context reads (LIMIT 10 messages)
    MaxLegacyCalls,     \* bound: calls
    MaxLegacyFaults     \* bound: failing stores and restarts

VARIABLES
    files,          \* the files directory: [name, stamp] -> the call whose bytes it holds
    indexed,        \* calls whose chunks the vector store has
    fallbackIndex,  \* calls whose chunks the fallback list has
    exchanges,      \* conversation store: the exchanges in order
    sinceSummary,   \* and the messages counted since its summary
    memory,         \* memory store: the exchanges in order
    legacy,         \* the call under way: [pc, todo, recalled, hits]
    legacyCalls, legacyFaults

legacyVars == <<files, indexed, fallbackIndex, exchanges, sinceSummary, memory, legacy,
                legacyCalls, legacyFaults>>
uploads == <<files, indexed, fallbackIndex>>
chats == <<exchanges, sinceSummary, memory>>

NoCall == [pc |-> "idle", todo |-> <<>>, recalled |-> {}, hits |-> {}]
\* A file of a request: its name, and whether extension, size and text pass the checks.
LegacyFiles == [name : {"a", "b"}, accepted : BOOLEAN]

LegacyInit ==
    /\ files = [p \in {} |-> 0] /\ indexed = {} /\ fallbackIndex = {}
    /\ exchanges = <<>> /\ sinceSummary = 0 /\ memory = <<>>
    /\ legacy = NoCall /\ legacyCalls = 0 /\ legacyFaults = 0

LegacyAt(pc) == legacy.pc = pc
Continue(pc) == legacy' = [legacy EXCEPT !.pc = pc]
Failing == legacyFaults < MaxLegacyFaults /\ legacyFaults' = legacyFaults + 1

Begins(call) ==
    /\ LegacyAt("idle") /\ legacyCalls < MaxLegacyCalls
    /\ legacyCalls' = legacyCalls + 1 /\ legacy' = call
    /\ UNCHANGED <<uploads, chats, legacyFaults>>

(* upload_document                                                         *)

BeginUpload == \E f \in LegacyFiles, g \in LegacyFiles :
    \E todo \in {<<f>>, <<f, g>>} : Begins([NoCall EXCEPT !.pc = "file", !.todo = todo])

\* A file that fails a check ends the request; the files before it stay.
RefuseFile ==
    /\ LegacyAt("file") /\ ~Head(legacy.todo).accepted
    /\ legacy' = NoCall
    /\ UNCHANGED <<uploads, chats, legacyCalls, legacyFaults>>

\* _prepare_upload_path: the name itself, else the first free <name>.<stamp>.
FreePath(name) == CHOOSE p \in [name : {name}, stamp : 0..(2 * MaxLegacyCalls)] :
    /\ p \notin DOMAIN files
    /\ \A s \in 0..(p.stamp - 1) : [name |-> name, stamp |-> s] \in DOMAIN files
Saved(path) == [p \in DOMAIN files \cup {path} |-> IF p = path THEN legacyCalls ELSE files[p]]

\* Mutant: the file is saved under its name whatever is there.
SaveOver ==
    /\ LegacyAt("file") /\ Head(legacy.todo).accepted
    /\ files' = Saved([name |-> Head(legacy.todo).name, stamp |-> 0])
    /\ Continue("index")
    /\ UNCHANGED <<indexed, fallbackIndex, chats, legacyCalls, legacyFaults>>

SaveFile ==
    /\ LegacyAt("file") /\ Head(legacy.todo).accepted
    /\ files' = Saved(FreePath(Head(legacy.todo).name))
    /\ Continue("index")
    /\ UNCHANGED <<indexed, fallbackIndex, chats, legacyCalls, legacyFaults>>

SaveFails ==
    /\ LegacyAt("file") /\ Head(legacy.todo).accepted /\ Failing
    /\ legacy' = NoCall
    /\ UNCHANGED <<uploads, chats, legacyCalls>>

\* upsert_chunks: the store, or on any failure the fallback list.
Index ==
    /\ LegacyAt("index")
    /\ \/ indexed' = indexed \cup {legacyCalls} /\ UNCHANGED <<fallbackIndex, legacyFaults>>
       \/ Failing /\ fallbackIndex' = fallbackIndex \cup {legacyCalls} /\ UNCHANGED indexed
    /\ legacy' = IF Len(legacy.todo) = 1 THEN NoCall
                 ELSE [legacy EXCEPT !.pc = "file", !.todo = Tail(@)]
    /\ UNCHANGED <<files, chats, legacyCalls>>

(* chat                                                                    *)

\* The transcript of the last exchanges the memory holds; a failure reads as none.
Recalled == {memory[i] : i \in {j \in DOMAIN memory : j + MemoryWindow > Len(memory)}}

BeginChat == \E recalled \in {Recalled, {}} :
    Begins([NoCall EXCEPT !.pc = "generate", !.recalled = recalled, !.hits = fallbackIndex])

\* The model answers, or its error, or that of the conversation store, ends the call.
Exchange ==
    /\ LegacyAt("generate")
    /\ exchanges' = Append(exchanges, legacyCalls) /\ sinceSummary' = sinceSummary + 2
    /\ Continue(IF sinceSummary' >= SummaryAfter THEN "summarize" ELSE "remember")
    /\ UNCHANGED <<uploads, memory, legacyCalls, legacyFaults>>

ChatFails ==
    /\ legacy.pc \in {"generate", "summarize"} /\ Failing
    /\ legacy' = NoCall
    /\ UNCHANGED <<uploads, chats, legacyCalls>>

Summarize ==
    /\ LegacyAt("summarize")
    /\ sinceSummary' = 0 /\ Continue("remember")
    /\ UNCHANGED <<uploads, exchanges, memory, legacyCalls, legacyFaults>>

\* Question and answer in one transaction; its failure is only logged.
Remember ==
    /\ LegacyAt("remember")
    /\ \/ memory' = Append(memory, legacyCalls) /\ UNCHANGED legacyFaults
       \/ Failing /\ UNCHANGED memory
    /\ legacy' = NoCall
    /\ UNCHANGED <<uploads, exchanges, sinceSummary, legacyCalls>>

\* The process ends, and bootstrap makes a new fallback list.
Reboot ==
    /\ Failing
    /\ fallbackIndex' = {} /\ legacy' = NoCall
    /\ UNCHANGED <<files, indexed, chats, legacyCalls>>

LegacyNext ==
    \/ BeginUpload \/ RefuseFile \/ SaveFile \/ SaveFails \/ Index
    \/ BeginChat \/ Exchange \/ ChatFails \/ Summarize \/ Remember \/ Reboot

-----------------------------------------------------------------------------
\* The stores of the service tell one story whatever fails between two of them: chunks that are
\* indexed, in the store or in the fallback list, are of bytes still on disk, and the memory
\* remembers exchanges of the conversation only, in their order and once
\* (main.py:638-650 and 732-741).
LegacyStoresAgree ==
    /\ \A c \in indexed \cup fallbackIndex : \E p \in DOMAIN files : files[p] = c
    /\ \A i \in DOMAIN memory : \E j \in DOMAIN exchanges : exchanges[j] = memory[i]
    /\ \A i, j \in DOMAIN memory : i < j => memory[i] < memory[j]
=============================================================================
