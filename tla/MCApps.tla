----------------------------- MODULE MCApps -------------------------------
(***************************************************************************)
(* Installing applications and running them.  The initial state chooses    *)
(* one of the two; the other stays as it starts.  Two applications and     *)
(* packages that must be refused, over a tree of one directory of          *)
(* applications and the database.                                          *)
(***************************************************************************)
EXTENDS Packages, Process

VARIABLE part

MC_APPS == <<"apps">>
MC_DB == <<"db">>
MC_Name == {"apps", "db", "p", "q", "pq", "m", "e"}
MC_Path == {<<>>, MC_APPS, MC_DB} \cup {<<"apps", n>> : n \in {"p", "q"}}
           \cup {<<"apps", n, f>> : n \in {"p", "q"}, f \in {"m", "e"}}
MC_InitTree == [p \in {<<>>, MC_APPS} |-> NewDir]
MC_HOME == <<>>
MC_MANIFEST == <<"m">>

FileEntry(path, i) ==
    [path |-> path, offset |-> 6, size |-> 1,
     data |-> << IF i % 2 = 1 THEN <<"one">> ELSE <<"two">> >>]
File(name, version, paths) ==
    [name |-> name, version |-> version, entry |-> <<"e">>, size |-> 7, table_offset |-> 1,
     data_offset |-> 1 + Len(paths), entries |-> [i \in DOMAIN paths |-> FileEntry(paths[i], i)]]
MC_PackageFiles ==
    {File("p", "1", << <<"m">>, <<"e">> >>), File("q", "1", << <<"e">>, <<"m">>, <<"m">> >>),
     File("q", "", << <<"m">>, <<"e">> >>), File("p", "1", << <<"m">> >>),
     File("p", "1", << <<"m">>, <<"e">>, <<"e", "e">> >>),
     File("p", "1", << <<"m">>, <<"e">>, <<"..", "q">> >>)}

MC_Text == {<<"one">>, <<"two">>}
MC_UserContent == {<< <<"two">> >>}
\* Of the lines of p and q: a name that no package has, and p with the
\* application of another.
MC_Splices == {[name |-> "pq", version |-> "1", entry |-> <<"e">>],
               [name |-> "p", version |-> "1", entry |-> <<"q">>]}
MC_Content == UNION {[1 .. n -> AnyLine] : n \in 0 .. 3}

AppsInit == PackageInit /\ ProcessInit /\ part \in {"packages", "processes"}

AppsNext ==
    \/ part = "packages" /\ PackageNext /\ UNCHANGED <<processVars, part>>
    \/ part = "processes" /\ ProcessNext /\ UNCHANGED <<packageVars, part>>
=============================================================================
