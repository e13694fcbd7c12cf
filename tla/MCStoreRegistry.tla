--------------------------- MODULE MCStoreRegistry ---------------------------
(***************************************************************************)
(* StoreRegistry and StoreConfig for TLC: two stores on one export, and  *)
(* requests that exercise every branch of the parameters' parsing.         *)
(***************************************************************************)
EXTENDS StoreRegistry

Plain == [type |-> "nfs", server |-> "srv", path |-> "/exp", options |-> <<"hard">>,
          subDir |-> <<>>, localPath |-> "", shared |-> "",
          encrypted |-> "", cipher |-> "", keySize |-> 0,
          extra |-> TRUE, ns |-> "a", pvc |-> "claim", pv |-> "pv1"]

\* On the export: its root, and a namespace's directory.
OnExport == {Plain, [Plain EXCEPT !.subDir = <<"${pvc.namespace}", "fileblock">>]}

\* Elsewhere: paths and options of every shape.
Paths ==
    {<<"${pvc.namespace}", "fileblock">>, <<"${pvc.namespace}", "${pvc.name}">>, <<"${pv.name}">>,
     <<"${pvc.metadata.name}">>,
     <<"", "x">>, <<"x", "..", "y">>, <<".">>, <<"x", "", ".", "y">>, <<"x", "">>, <<"..">>}
Options == {<<>>, <<"hard", "nolock">>, <<"nolock", "", "hard">>, <<"hard", "hard">>}
Elsewhere ==
    {[Plain EXCEPT !.path = "/other", !.subDir = d, !.options = o, !.extra = e, !.ns = n] :
        d \in Paths, o \in Options, e \in BOOLEAN, n \in {"a", "b"}}

Local ==
    {[Plain EXCEPT !.type = "local", !.localPath = l, !.shared = s, !.subDir = d] :
        l \in {"", "/mnt"}, s \in {"", "true", "yes"}, d \in {<<>>, <<"x">>}}

Broken ==
    {[Plain EXCEPT !.server = ""], [Plain EXCEPT !.path = ""], [Plain EXCEPT !.type = ""],
     [Plain EXCEPT !.type = "iscsi"]}

Ciphers ==
    {[Plain EXCEPT !.path = "/enc", !.encrypted = e, !.cipher = c, !.keySize = k] :
        e \in {"", "false", "true", "yes"}, c \in {"", "serpent-xts-plain64", "bad"},
        k \in {0, 1, 256}}

MCParams == OnExport \cup Elsewhere \cup Local \cup Broken \cup Ciphers
MCExport == MountID(ConfigFromParams(Plain))
=============================================================================
