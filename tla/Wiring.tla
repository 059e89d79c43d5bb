-------------------------------- MODULE Wiring --------------------------------
(***************************************************************************)
(* The composition root (build_dependencies of                             *)
(* src/infrastructure/config.py): which adapters a configuration resolves  *)
(* to, which of them are one object, which borrow the vision model, and in *)
(* what order Dependencies.close releases them.                            *)
(*                                                                         *)
(* An adapter object is its identity, the role it was built for, and the   *)
(* provider it talks to.  The rasterizer holds no client.                  *)
(***************************************************************************)
EXTENDS Integers, Sequences

ExtractorProviders == {"azure", "aws", "google", "native_vlm"}
VLMProviders       == {"openai", "anthropic", "ollama", "azure_foundry"}

Settings ==
  [extractor_provider: ExtractorProviders,
   vlm_provider: VLMProviders,
   grounding_extractor_provider: ExtractorProviders \cup {"none"},
   native_vlm_request_bounding_boxes: BOOLEAN,
   static_keys: SUBSET {"azure", "azure_foundry"}]

Roles == {"extractor", "grounding", "vlm"}

build_vlm_provider(s) == [role |-> "vlm", provider |-> s.vlm_provider]

build_extractor(s, role, provider) == [role |-> role, provider |-> provider]

(* Unless it is configured otherwise, the grounding branch reads with the  *)
(* vision model.                                                           *)
build_grounding_extractor(s) ==
  build_extractor(s, "grounding",
    IF s.grounding_extractor_provider = "none" THEN "native_vlm"
    ELSE s.grounding_extractor_provider)

(* One object for both branches, if it grounds already.                    *)
SharesExtractor(s) ==
  /\ s.extractor_provider = "native_vlm"
  /\ s.native_vlm_request_bounding_boxes
  /\ s.grounding_extractor_provider = "none"

(* extractor, grounding_extractor and vlm_provider of Dependencies.        *)
build_dependencies(s) ==
  LET extractor == build_extractor(s, "extractor", s.extractor_provider)
  IN <<extractor,
       IF SharesExtractor(s) THEN extractor ELSE build_grounding_extractor(s),
       build_vlm_provider(s)>>

(* The adapter whose client a resource uses: the native extractor borrows  *)
(* the vision model's.                                                     *)
Holder(resource) ==
  IF resource.provider = "native_vlm" THEN "vlm" ELSE resource.role

Resources(s) == {build_dependencies(s)[i] : i \in 1..3}
Holders(s)   == {Holder(r) : r \in Resources(s)}

ProviderOf(s, role) ==
  (CHOOSE r \in Resources(s) : r.role = role).provider

(* Adapters that authenticate with a managed identity.                     *)
Keyless(s) ==
  {a \in Holders(s) : ProviderOf(s, a) \in {"azure", "azure_foundry"} \ s.static_keys}

(* SDK clients an adapter can only drop the reference to.                  *)
OnlyDropped(s) == {a \in Holders(s) : ProviderOf(s, a) \in {"aws", "google"}}

(* Seeded fault: two adapters of a class are taken for one.                *)
class_seen(s, i) ==
  \E j \in 1..(i - 1) :
    build_dependencies(s)[j].provider = build_dependencies(s)[i].provider

(* Dependencies.close: each object once, by identity.                      *)
Seen(s, i) ==
  \E j \in 1..(i - 1) : build_dependencies(s)[j].role = build_dependencies(s)[i].role

(* The adapters whose client and credential the close() calls release.     *)
Closes(s) ==
  LET released(i) == IF Seen(s, i) THEN << >> ELSE <<Holder(build_dependencies(s)[i])>>
  IN released(1) \o released(2) \o released(3)
=============================================================================
