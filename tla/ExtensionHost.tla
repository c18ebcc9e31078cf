--------------------------- MODULE ExtensionHost ---------------------------
(***************************************************************************)
(* Adapter manifests and the host that loads them: manifest.ts of          *)
(* kernel/extensions and host.ts of engine/materializer.  Pure: what       *)
(* stands under the extension root is a sequence of manifest files in the  *)
(* order of their paths, each with what its entry turns out to be.         *)
(*                                                                         *)
(* A file is [parses, conforms, id, version, kinds, runtime, capabilities, *)
(* mode, checks, entry, identity]; entry is "OUTSIDE" its directory, does  *)
(* not load ("FAILS"), is no adapter ("OTHER") or an "ADAPTER", which      *)
(* describes itself by identity.  An id is the sequence of its dotted      *)
(* parts, numbered in the order of their names.                            *)
(***************************************************************************)
EXTENDS Resolver

-----------------------------------------------------------------------------
(* Manifests.                                                              *)

(* jsonSchemaDiagnostics is one flag; the rules beyond the schema.         *)
validateManifest(file) ==
  /\ file.conforms
  /\ uniqueIds(file.checks)
  /\ \E c \in DOMAIN file.checks : file.checks[c].level = "STRUCTURAL"

idBefore(a, b) ==
  \/ Len(a) < Len(b) /\ IsPrefix(a, b)
  \/ \E n \in DOMAIN a \intersect DOMAIN b :
       SubSeq(a, 1, n - 1) = SubSeq(b, 1, n - 1) /\ a[n] < b[n]

validateCatalog(catalog) ==
  LET codes == catalogDiagnostics(catalog)
  IN  [catalog |-> IF codes = {} THEN catalog ELSE Null, diagnostics |-> codes]

(* A capability becomes a provider for the runtime of its manifest.        *)
descriptors(manifests) ==
  LET before == {ij \in (DOMAIN manifests) \X (DOMAIN manifests) : idBefore(manifests[ij[1]].id, manifests[ij[2]].id)}
      order == inOrder(DOMAIN manifests, before)
      sorted == [i \in DOMAIN manifests |-> manifests[order[i]]]
      provider(m, capability) == [id |-> Append(m.id, capability), wellFormed |-> TRUE,
                                  capability |-> capability, runtimes |-> {m.runtime}]
  IN  [adapters |-> [i \in DOMAIN sorted |->
         [id |-> sorted[i].id, wellFormed |-> TRUE, kinds |-> sorted[i].kinds, runtime |-> sorted[i].runtime]],
       providers |-> FlattenSeq([i \in DOMAIN sorted |->
         [k \in DOMAIN sorted[i].capabilities |-> provider(sorted[i], sorted[i].capabilities[k])]])]

catalogFromManifests(manifests) ==
  IF ~ uniqueIds(manifests) THEN [catalog |-> Null, diagnostics |-> {"MANIFEST_DUPLICATE_ID"}]
  ELSE validateCatalog(descriptors(manifests))

-----------------------------------------------------------------------------
(* The host.                                                               *)

(* Faulty variant: whoever runs elsewhere is offered to the resolver too.  *)
refusalUnlessUnloadable(file) ==
  CASE ~ file.parses \/ ~ validateManifest(file) -> "MANIFEST_INVALID"
    [] file.entry # "ADAPTER" -> "ADAPTER_LOAD_FAILED"
    [] file.identity # <<file.id, file.version>> -> "ADAPTER_CONTRACT_VIOLATION"
    [] OTHER -> Null

(* Why the loop of loadExtensions leaves a file out, Null if it does not.  *)
(* The tests come in this order.                                           *)
refusal(file) ==
  IF ~ file.parses \/ ~ validateManifest(file) THEN "MANIFEST_INVALID"
  ELSE IF file.mode # "TRUSTED_IN_PROCESS" THEN "ADAPTER_UNSUPPORTED_EXECUTION_MODE"
  ELSE IF file.entry # "ADAPTER" THEN "ADAPTER_LOAD_FAILED"
  ELSE IF file.identity # <<file.id, file.version>> THEN "ADAPTER_CONTRACT_VIOLATION"
  ELSE Null

(* The ExtensionHost: what it loaded, its catalog and what it reports.     *)
loadExtensions(files) ==
  LET loaded == inOrder({i \in DOMAIN files : refusal(files[i]) = Null},
                        {ij \in (DOMAIN files) \X (DOMAIN files) : ij[1] < ij[2]})
      extensions == [k \in DOMAIN loaded |-> files[loaded[k]]]
      catalog == catalogFromManifests(extensions)
  IN  [extensions |-> extensions,
       catalog |-> catalog.catalog,
       diagnostics |-> ({refusal(f) : f \in Range(files)} \ {Null}) \union catalog.diagnostics]

(* get of the host: a Map, so the last of several with one id is found.     *)
extensionOf(host, id) ==
  LET i == SelectLastInSeq(host.extensions, LAMBDA e : e.id = id)
  IN  IF i = 0 THEN Null ELSE host.extensions[i]

HOST_WARNINGS == {"ADAPTER_UNSUPPORTED_EXECUTION_MODE"}

=============================================================================
