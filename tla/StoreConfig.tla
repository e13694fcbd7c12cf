------------------------------ MODULE StoreConfig ------------------------------
(***************************************************************************)
(* Which store a volume belongs to, and how it is formatted: the           *)
(* StorageClass parameters of a CreateVolume parsed into a store.Config    *)
(* (pkg/store/parse.go), the identity of mount and store                   *)
(* (pkg/store/store.go), the cipher parameters (pkg/driver/encryption.go), *)
(* and the volume context that carries all of it to the node.              *)
(*                                                                         *)
(* An absent parameter is "".  A path is the sequence of its segments,     *)
(* empty when absent; "" at its head makes it absolute.  A template token  *)
(* is a segment of its own.  Ids are the keys they are hashes of.          *)
(*                                                                         *)
(* Definitions named <operator>_<change> are mutants: the operator as a    *)
(* plausible bug would have it, to show that a property notices.           *)
(***************************************************************************)
EXTENDS Naturals, Sequences, FiniteSets, Functions

CONSTANT Params   \* what StorageClasses and claims put into a request

\* A subDir is a path, and no Kubernetes object is called ".".
ASSUME ParamsAssumption ==
    \A p \in Params : p.subDir \in Seq(STRING) /\ "." \notin {p.ns, p.pvc, p.pv}

TokenNames == {"${pvc.namespace}", "${pvc.name}", "${pv.name}"}

\* external-provisioner injects the metadata only under
\* --extra-create-metadata; a volume context has none.
Metadata(p) ==
    IF p.extra THEN [t \in TokenNames |-> IF t = "${pvc.namespace}" THEN p.ns
                                          ELSE IF t = "${pvc.name}" THEN p.pvc ELSE p.pv]
    ELSE [t \in TokenNames |-> ""]

IsToken(segment) == segment \in TokenNames \cup {"${pvc.metadata.name}"}

Substituted(p) ==
    [i \in DOMAIN p.subDir |->
        LET s == p.subDir[i]
        IN  IF s \in TokenNames /\ Metadata(p)[s] # "" THEN Metadata(p)[s] ELSE s]

\* path.Clean, of a relative path without "..": the segments that say
\* something, each at the place its rank among them gives.
Kept(path) == {i \in DOMAIN path : path[i] \notin {"", "."}}
Clean(path) ==
    [k \in 1..Cardinality(Kept(path)) |->
        path[CHOOSE i \in Kept(path) : Cardinality(Kept(path) \cap (1..i)) = k]]

\* resolveSubDir: a token that is left, an absolute path, a ".." and a path
\* that comes to nothing are refused.
Refused == <<"..">>
ResolveSubDir_Literal(p) == Clean(Substituted(p))
ResolveSubDir(p) ==
    LET sub == Substituted(p)
        bad == \/ \E s \in Range(sub) : IsToken(s) \/ s = ".."
               \/ Head(sub) = ""
               \/ Clean(sub) = <<>>
    IN  IF p.subDir = <<>> THEN <<>> ELSE IF bad THEN Refused ELSE Clean(sub)

NoConfig == [type |-> "invalid"]

ConfigFromParams(p) ==
    CASE p.type = "nfs" /\ p.server # "" /\ p.path # "" /\ ResolveSubDir(p) # Refused ->
            [type |-> "nfs", server |-> p.server, path |-> p.path, options |-> p.options,
             subDir |-> ResolveSubDir(p)]
      [] p.type = "local" /\ p.localPath # "" /\ p.subDir = <<>> ->
            [type |-> "local", path |-> p.localPath, shared |-> (p.shared = "true")]
      [] OTHER -> NoConfig

\* canonicalOptions: order and empty entries do not matter, repeats do.
CanonicalOptions(options) ==
    [o \in Range(options) \ {""} |-> Cardinality({i \in DOMAIN options : options[i] = o})]

MountID(c) ==
    IF c.type = "nfs" THEN <<"nfs", c.server, c.path, CanonicalOptions(c.options)>>
    ELSE <<"local", c.path>>

SubDirOf(c) == IF c.type = "nfs" THEN c.subDir ELSE <<>>

StoreID(c) == IF SubDirOf(c) = <<>> THEN MountID(c) ELSE Append(MountID(c), c.subDir)

\* encryptedFromParams.
ValidEncrypted(p) == p.encrypted \in {"", "false", "true"}
Encrypted(p) == p.encrypted = "true"

\* formatFromParams: an explicit cipher needs a key size.  A key size is 0
\* when absent, and "bad" text reads as 1, which is no multiple of 8.
DefaultFormat == [cipher |-> "aes-xts-plain64", keySize |-> 512]
NoFormat == [cipher |-> "bad", keySize |-> 0]
FormatFromParams(p, encrypted) ==
    CASE p.cipher = "" /\ p.keySize = 0 -> DefaultFormat
      [] ~(p.cipher = "" /\ p.keySize = 0)
         /\ encrypted /\ p.cipher # "bad" /\ p.keySize % 8 = 0
         /\ (p.cipher # "" => p.keySize # 0) ->
            [cipher |-> IF p.cipher = "" THEN DefaultFormat.cipher ELSE p.cipher,
             keySize |-> IF p.keySize = 0 THEN DefaultFormat.keySize ELSE p.keySize]
      [] OTHER -> NoFormat

\* What CreateVolume checks before it turns to the store.
Accepted(p) ==
    /\ ConfigFromParams(p) # NoConfig
    /\ ValidEncrypted(p)
    /\ FormatFromParams(p, Encrypted(p)) # NoFormat

\* ToVolumeContext and formatToVolumeContext: what the node gets.
VolumeContext(p) ==
    LET c == ConfigFromParams(p)
        nfs == c.type = "nfs"
    IN  [type |-> c.type,
         server |-> IF nfs THEN c.server ELSE "",
         path |-> IF nfs THEN c.path ELSE "",
         options |-> IF nfs THEN c.options ELSE <<>>,
         subDir |-> SubDirOf(c),
         localPath |-> IF nfs THEN "" ELSE c.path,
         shared |-> IF ~nfs /\ c.shared THEN "true" ELSE "",
         encrypted |-> IF Encrypted(p) THEN "true" ELSE "",
         cipher |-> IF Encrypted(p) THEN p.cipher ELSE "",
         keySize |-> IF Encrypted(p) THEN p.keySize ELSE 0,
         extra |-> FALSE, ns |-> "", pvc |-> "", pv |-> ""]

-----------------------------------------------------------------------------
(* Properties. *)

\* The node reads from the volume context the store, and the format, that
\* the controller read from the parameters, so it finds the image and makes
\* the header the StorageClass asked for (parse.go ToVolumeContext and
\* ConfigFromVolumeContext, encryption.go formatToVolumeContext).
NodeReadsTheSame(p) ==
    LET vc == VolumeContext(p)
    IN  /\ Accepted(vc)
        /\ ConfigFromParams(vc) = ConfigFromParams(p)
        /\ Encrypted(vc) = Encrypted(p)
        /\ FormatFromParams(vc, Encrypted(vc)) = FormatFromParams(p, Encrypted(p))

\* Two claims that a class whose subDir names the namespace puts into one
\* directory though they are of different namespaces (parse.go
\* resolveSubDir: an unresolved token "silently gives every namespace the
\* same one").
NamespacesMix(p, q) ==
    /\ p.type = "nfs" /\ q.type = "nfs" /\ p.subDir = q.subDir
    /\ "${pvc.namespace}" \in Range(p.subDir)
    /\ p.ns # q.ns
    /\ StoreID(ConfigFromParams(p)) = StoreID(ConfigFromParams(q))

\* The stores that some accepted request leads to, and those that one leads
\* to wrongly.
StoreIDs == {StoreID(ConfigFromParams(p)) : p \in {q \in Params : Accepted(q)}}
Misplaced ==
    LET requests == {p \in Params : Accepted(p)}
    IN  {StoreID(ConfigFromParams(p)) :
           p \in {r \in requests : ~NodeReadsTheSame(r) \/ \E q \in requests : NamespacesMix(r, q)}}
=============================================================================
