------------------------------ MODULE MCClients ------------------------------
(***************************************************************************)
(* One configuration for each way the resources can be shared: a template  *)
(* extractor beside the vision model, two extractors of one kind, one      *)
(* native extractor for both branches or one for each, and SDKs without    *)
(* close().                                                                *)
(***************************************************************************)
EXTENDS Clients

Configuration(extractor, grounding, vlm, boxes, keys) ==
  [extractor_provider |-> extractor, grounding_extractor_provider |-> grounding,
   vlm_provider |-> vlm, native_vlm_request_bounding_boxes |-> boxes,
   static_keys |-> keys]

MCConfigurations ==
  {Configuration("azure", "none", "azure_foundry", FALSE, {}),
   Configuration("azure", "azure", "openai", FALSE, {}),
   Configuration("native_vlm", "none", "azure_foundry", TRUE, {}),
   Configuration("native_vlm", "none", "anthropic", FALSE, {}),
   Configuration("aws", "azure", "ollama", FALSE, {"azure"}),
   Configuration("google", "aws", "azure_foundry", TRUE, {"azure_foundry"})}
=============================================================================
