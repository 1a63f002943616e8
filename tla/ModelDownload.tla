--------------------------- MODULE ModelDownload ---------------------------
(***************************************************************************)
(* scripts/download_model.py: runs of the script that puts the GGUF model  *)
(* in place, one after the other (kb_api runs it at every start), with     *)
(* answers that break off, an upstream file that changes, and kills.       *)
(*                                                                         *)
(* A file is the revision it holds ("first", "second") or "cut" for a      *)
(* truncated one; its SHA-256 is modelled by the file itself. The manifest *)
(* entry has a model_id, and a url when "hasUrl".                          *)
(***************************************************************************)
EXTENDS Naturals

CONSTANTS
    MaxTries,       \* --max-retries
    MaxDownloads    \* bound: runs of the script

VARIABLES
    hasUrl, hubHere,    \* the entry has a url; huggingface_hub can be imported
    upstream,           \* the revision that is published now
    modelAt,            \* the file at --output
    tmpAt,              \* the file at --output.tmp
    manifest,           \* model_manifest.json: [whole, sha]
    download,           \* the run under way or the last one
    downloads           \* runs so far

downloadVars == <<hasUrl, hubHere, upstream, modelAt, tmpAt, manifest, download, downloads>>
entry == <<hasUrl, hubHere>>

NoFile == "none"
Revisions == {"first", "second"}
NoDownload == [pc |-> "idle", via |-> "none", sha |-> NoFile, expected |-> NoFile, tries |-> 0,
               before |-> NoFile, override |-> FALSE, end |-> "none"]

DownloadInit ==
    /\ hasUrl \in BOOLEAN /\ hubHere \in BOOLEAN
    /\ upstream = "first" /\ modelAt = NoFile /\ tmpAt = NoFile
    /\ manifest \in [whole : {TRUE}, sha : {NoFile, "first"}]
    /\ download = NoDownload /\ downloads = 0

Ends(how) == download' = [download EXCEPT !.pc = "idle", !.end = how]

\* apply_overrides: the url when the checksum is known or the Hub client is missing, else the
\* Hub, whose metadata has a checksum.
Via(sha) == CASE ~hasUrl -> "hub"
              [] sha # NoFile \/ ~hubHere -> "http"
              [] OTHER -> "hub"

\* main with --allow-missing-hash: read the manifest (a torn one raises at once), apply
\* --sha256, and stop if the file is there with that checksum and --overwrite is not given.
StartDownload(sha, overwrite) ==
    /\ download.pc = "idle" /\ downloads < MaxDownloads /\ manifest.whole
    /\ downloads' = downloads + 1
    /\ LET known == IF sha = NoFile THEN manifest.sha ELSE sha
           skip  == modelAt # NoFile /\ ~overwrite /\ known # NoFile /\ modelAt = known
       IN  download' = [pc |-> IF skip THEN "idle" ELSE Via(known), via |-> Via(known),
                        sha |-> known, expected |-> known, tries |-> 0, before |-> modelAt,
                        override |-> sha # NoFile, end |-> IF skip THEN "ok" ELSE "none"]
    /\ UNCHANGED <<entry, upstream, modelAt, tmpAt, manifest>>

\* A failed attempt of download_via_http: the temporary file goes, and so does the run after
\* the last attempt.
TryFails ==
    /\ tmpAt' = NoFile
    /\ download' = IF download.tries + 1 >= MaxTries
                   THEN [download EXCEPT !.pc = "idle", !.end = "failed"]
                   ELSE [download EXCEPT !.pc = "http", !.tries = @ + 1]
    /\ UNCHANGED <<entry, upstream, modelAt, manifest, downloads>>

Unreachable == download.pc = "http" /\ TryFails

\* The body is written to the temporary file; a connection that breaks off early can look
\* like the end of the body.
Fetch(file) ==
    /\ download.pc = "http" /\ file \in {upstream, "cut"}
    /\ tmpAt' = file
    /\ download' = [download EXCEPT !.pc = "check"]
    /\ UNCHANGED <<entry, upstream, modelAt, manifest, downloads>>

\* Mutant: the file is moved into place before its checksum is compared.
CheckAfterReplace ==
    /\ download.pc = "check"
    /\ modelAt' = tmpAt /\ tmpAt' = NoFile
    /\ download' = IF download.expected \in {NoFile, tmpAt} THEN [download EXCEPT !.pc = "update"]
                   ELSE [download EXCEPT !.pc = "idle", !.end = "failed"]
    /\ UNCHANGED <<entry, upstream, manifest, downloads>>

\* With the right checksum, or when none is known, the temporary file becomes the model.
Check ==
    /\ download.pc = "check"
    /\ IF download.expected \in {NoFile, tmpAt}
       THEN /\ modelAt' = tmpAt /\ tmpAt' = NoFile
            /\ download' = [download EXCEPT !.pc = "update"]
            /\ UNCHANGED <<entry, upstream, manifest, downloads>>
       ELSE TryFails

\* download_via_hub: the checksum of the metadata if none is known.
HubMetadata ==
    /\ download.pc = "hub" /\ hubHere
    /\ download' = [download EXCEPT !.pc = "hub_file",
                                    !.expected = IF @ = NoFile THEN upstream ELSE @]
    /\ UNCHANGED <<entry, upstream, modelAt, tmpAt, manifest, downloads>>

HubFails ==
    /\ download.pc \in {"hub", "hub_file"}
    /\ Ends("failed")
    /\ UNCHANGED <<entry, upstream, modelAt, tmpAt, manifest, downloads>>

\* The client puts the file into the directory of the output, and it is moved to the output
\* before anything is compared.
HubFile ==
    /\ download.pc = "hub_file"
    /\ modelAt' = upstream
    /\ download' = [download EXCEPT !.pc = "hub_check"]
    /\ UNCHANGED <<entry, upstream, tmpAt, manifest, downloads>>

HubCheck ==
    /\ download.pc = "hub_check"
    /\ IF modelAt = download.expected THEN download' = [download EXCEPT !.pc = "update"]
       ELSE Ends("failed")
    /\ UNCHANGED <<entry, upstream, modelAt, tmpAt, manifest, downloads>>

\* execute, after a download: the checksum goes into the manifest unless it was the expected
\* one. dump_manifest truncates the file and then writes it.
UpdateManifest ==
    /\ download.pc = "update"
    /\ IF download.sha = modelAt
       THEN Ends("ok") /\ UNCHANGED manifest
       ELSE /\ download' = [download EXCEPT !.pc = "dump"]
            /\ manifest' = [manifest EXCEPT !.whole = FALSE]
    /\ UNCHANGED <<entry, upstream, modelAt, tmpAt, downloads>>

DumpManifest ==
    /\ download.pc = "dump"
    /\ manifest' = [whole |-> TRUE, sha |-> modelAt]
    /\ Ends("ok")
    /\ UNCHANGED <<entry, upstream, modelAt, tmpAt, downloads>>

\* The container stops: the files stay as they are, half a download among them.
KillDownload ==
    /\ download.pc # "idle"
    /\ tmpAt' \in IF download.pc = "http" THEN {tmpAt, "cut"} ELSE {tmpAt}
    /\ Ends("killed")
    /\ UNCHANGED <<entry, upstream, modelAt, manifest, downloads>>

Publish ==
    /\ upstream = "first" /\ upstream' = "second"
    /\ UNCHANGED <<entry, modelAt, tmpAt, manifest, download, downloads>>

DownloadNext ==
    \/ \E sha \in Revisions \union {NoFile}, overwrite \in BOOLEAN : StartDownload(sha, overwrite)
    \/ Unreachable \/ (\E file \in Revisions \union {"cut"} : Fetch(file)) \/ Check
    \/ HubMetadata \/ HubFails \/ HubFile \/ HubCheck
    \/ UpdateManifest \/ DumpManifest \/ KillDownload \/ Publish

(* ------------------------------ properties ------------------------------ *)

\* After a run that succeeded (without --sha256) the manifest names the file that is in place,
\* so the next start does not replace it; after one that failed over HTTP, whatever it had
\* fetched and whatever an earlier kill left, the old model is still there and nothing else.
ModelIsAccountedFor ==
    download.pc = "idle" =>
        /\ download.end = "ok" /\ ~download.override => manifest.sha = modelAt
        /\ download.end = "failed" /\ download.via = "http" =>
               modelAt = download.before /\ tmpAt = NoFile
=============================================================================
