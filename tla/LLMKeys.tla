------------------------------- MODULE LLMKeys -------------------------------
(***************************************************************************)
(* Key resolution of the chassis LLM subsystem (app/llm/service.py), as    *)
(* far as it depends on the tables alone.  Operators only: a scope's active keys are a function from *)
(* providers to the id of the provider's active key, 0 when it has none.   *)
(***************************************************************************)
EXTENDS Naturals

CONSTANTS Providers,        \* provider names a key can be stored for
          DefaultProvider   \* _DEFAULT_LLM_PROVIDER

ASSUME ProvidersAssumption == DefaultProvider \in Providers

NoKeys == [p \in Providers |-> 0]

Active(keys) == {p \in Providers : keys[p] # 0}

\* Mutant: the literal provider the pipeline used to pass.
HardcodedProvider(keys) == {DefaultProvider}

\* ORDER BY id DESC LIMIT 1 over the active keys of one scope.
Newest(keys) == {p \in Active(keys) : \A q \in Providers : keys[q] <= keys[p]}

\* set_key: the prior active key of the provider is deactivated, the new row
\* has a fresh id.  deactivate_key: the provider's key is no longer active.
WithKey(keys, p, id) == [keys EXCEPT ![p] = id]
WithoutKey(keys, p)  == [keys EXCEPT ![p] = 0]

\* resolve_api_key(provider p): the organisation's own active key, else the
\* platform-shared one when the organisation's policy row allows it.
Usable(orgKey, sharedKey, allowShared, p) ==
    \/ p \in Active(orgKey)
    \/ allowShared /\ p \in Active(sharedKey)
==============================================================================
