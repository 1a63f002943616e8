------------------------------ MODULE DbEngine ------------------------------
(***************************************************************************)
(* app/models/file.py and app/models/engine_guard.py: get_engine, which    *)
(* repairs the SQLModel metadata, opens a synchronous engine or a stub in  *)
(* its place, and creates the schema. What it returns is cached (lru_cache *)
(* of one entry), an engine left without schema included.                  *)
(*                                                                         *)
(* The metadata is [kind, registry, entries]: its kind, whether its table  *)
(* registry is intact, and per model what the registry has for it. The     *)
(* tables of the model classes that can migrate are a set of models.       *)
(***************************************************************************)
Models == {"documents", "files", "pages"}
Entries == {"own", "other", "nameless", "absent"}   \* table of this metadata, of another, unnamed, none
Kinds == {"metadata", "none", "no_metadata", "create_all_not_callable"}

\* url: the scheme of DB_URL; driver: its module can be imported; reachable: the server or file
\* can be opened; createAll: the statement goes through; missing: attributes the engine lacks.
Attributes == {"dialect", "url", "dispose", "connect"}
Databases == [url : {"sqlite+aiosqlite", "sqlite", "postgresql"}, driver : BOOLEAN,
              reachable : BOOLEAN, createAll : BOOLEAN, missing : {{}, {"dispose"}, {"dialect", "url"}}]
Metadatas == [kind : Kinds, facade : BOOLEAN, entries : [Models -> Entries],
              classes : {{}, {"documents"}, Models}]

(* Metadata                                                                *)

\* _rebuild_sqlmodel_metadata: the tables of the model classes that migrate.
Rebuilt(meta) == [meta EXCEPT !.kind = "metadata", !.facade = TRUE,
                  !.entries = [m \in Models |-> IF m \in meta.classes THEN "own" ELSE "absent"]]
Registered(meta) == {m \in Models : meta.entries[m] # "absent"}
WithoutInvalid(meta) == [meta EXCEPT !.entries =
    [m \in Models |-> IF meta.entries[m] = "own" THEN "own" ELSE "absent"]]

\* Mutant: entries of another metadata are taken for its own.
SanitizeKeepsForeign(meta) == IF ~meta.facade THEN Rebuilt(meta) ELSE meta
\* _sanitize_metadata_tables: a broken registry is rebuilt, invalid entries are dropped, and
\* only a registry left empty is rebuilt from the classes.
Sanitize(meta) ==
    IF ~meta.facade THEN Rebuilt(meta)
    ELSE IF Registered(WithoutInvalid(meta)) = {} /\ meta.classes # {} THEN Rebuilt(meta)
    ELSE WithoutInvalid(meta)

NewMetadata(meta) == [meta EXCEPT !.kind = "metadata", !.facade = TRUE,
                                  !.entries = [m \in Models |-> "absent"]]

\* _ensure_metadata_with_recovery over _ensure_sqlmodel_metadata.
EnsureMetadata(meta) ==
    CASE meta.kind = "metadata" -> Sanitize(meta)
      [] meta.kind = "none"     -> Sanitize(NewMetadata(meta))
      [] OTHER                  -> Sanitize(Rebuilt(meta))

(* Engine                                                                  *)

\* create_engine, or _build_engine_fallback without the dialect's module: attributes are the
\* engine's own or put there by the guards, which mark what they make up.
CreateEngine(db) ==
    [stub |-> ~db.driver,
     url |-> IF db.url = "sqlite+aiosqlite" THEN "sqlite" ELSE db.url,
     own |-> IF db.driver THEN Attributes \ db.missing ELSE {"url"},
     madeUp |-> {}]

\* _ensure_dialect, _ensure_url, _ensure_dispose, _ensure_connect.
EnsureSurface(engine) == [engine EXCEPT !.madeUp = Attributes \ engine.own]

\* _maybe_configure_sqlite_engine only logs what it cannot open.
WalMode(db, engine) == ~engine.stub /\ engine.url = "sqlite" /\ db.reachable

\* _create_schema_if_possible: a failure is logged and the engine is returned without schema.
SchemaCreated(db, engine) == ~engine.stub /\ db.reachable /\ db.createAll

\* get_engine: the engine, the tables there are now, the repaired metadata, and the warning.
GetEngine(db, meta, createSchema) ==
    LET repaired == EnsureMetadata(meta)
        engine   == EnsureSurface(CreateEngine(db))
        created  == createSchema /\ SchemaCreated(db, engine)
    IN  [engine |-> engine, wal |-> WalMode(db, engine), metadata |-> repaired,
         tables |-> IF created THEN Registered(EnsureMetadata(repaired)) ELSE {},
         warned |-> createSchema /\ ~created]

-----------------------------------------------------------------------------
\* A caller that asks for the schema and hears no warning has it whole: the tables created are
\* those the metadata owns, or of every class that migrates when it owned none, and never one
\* that belongs to another metadata; a stub engine is always said (file.py:94-122, 885-971).
SchemaIsWholeOrSaid(db, meta) ==
    LET opened == GetEngine(db, meta, TRUE)
        owned  == IF meta.kind = "metadata" /\ meta.facade
                  THEN {m \in Models : meta.entries[m] = "own"} ELSE {}
    IN  /\ opened.tables = IF opened.warned THEN {} ELSE IF owned = {} THEN meta.classes ELSE owned
        /\ opened.engine.stub => opened.warned
        /\ opened.engine.own \cup opened.engine.madeUp = Attributes
=============================================================================
