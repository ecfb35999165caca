---------------------------- MODULE MCMigration ----------------------------
(* Either command: the import of two events, or the rewriting of a source  *)
(* of four records in a root stream and two children.                      *)
EXTENDS Migration, LegacyForks

VARIABLE source    \* what migrate_legacy_branches reads, none in an import

mcvars == <<mvars, source>>

MCInit ==
    /\ MInit
    /\ source \in {{}} \cup {{src} : src \in Sources}
    /\ source # {} => ordered

MCNext == source = {} /\ MNext /\ UNCHANGED source

MCSpec == MCInit /\ [][MCNext]_mcvars /\ Fairness

\* Every branch has the history of the stream it comes from, for all nestings
\* of forks and all places of the markers among the events
\* (migration.rs:58-170).
LegacyForksExact == \A src \in source : ForksExact(src)
=============================================================================
