---------------------------- MODULE MCPagedReads ----------------------------
(* Small instances of PagedReads. *)
EXTENDS PagedReads

\* Rows are numbered.  Any initial table is, but for the names of its rows, one
\* that holds the first few of them with their keys in order; and where the
\* call does not look at kinds, one that holds rows of one kind.
\* The copier's pages are of two rows.
MCInit ==
    /\ Init
    /\ \A r \in DOMAIN rows, x \in Row :
          x < r => x \in DOMAIN rows /\ rows[x].key <= rows[r].key
    /\ query = "List" => \A r \in DOMAIN rows : rows[r].kind = "wanted"
    /\ Copying => limit = 2

MCSpec == MCInit /\ [][Next]_vars
=============================================================================
