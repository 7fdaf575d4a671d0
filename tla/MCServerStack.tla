--------------------------- MODULE MCServerStack ---------------------------
(***************************************************************************)
(* Instances of ServerStack for TLC.                                       *)
(***************************************************************************)
EXTENDS ServerStack

\* A server like examples/server_trait.rs, with an `exit` of its own.
AllHandlers == TraitHandlers \cup {"tick"}
TraitDefaults == {"shutdown", "initialized", "$/"}
NoDefaults == {}

\* The handlers of examples/server_builder.rs.
BuilderHandlers == {"initialize", "hover", "initialized", "didChange", "tick"}
============================================================================
