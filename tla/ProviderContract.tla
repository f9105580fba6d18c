-------------------------- MODULE ProviderContract --------------------------
(***************************************************************************)
(* What an OpenFeature provider promises an application about one          *)
(* evaluation after another: each ends with a result that is either a      *)
(* value of the type asked for, or an error together with the default the  *)
(* application gave.  An evaluation may end the program instead of         *)
(* returning only while the provider is not usable.                        *)
(***************************************************************************)
EXTENDS Resolution

CONSTANT Codes   \* the error codes of OpenFeature

VARIABLES phase, request, result, usable

contractVars == <<phase, request, result, usable>>

NoRequest == [type |-> "none", def |-> Nil]
NoResult == [val |-> Nil, err |-> "none", reason |-> Blank]

ContractInit ==
    /\ phase = "idle"
    /\ request = NoRequest
    /\ result = NoResult
    /\ usable \in BOOLEAN

Begin == /\ phase = "idle"
         /\ phase' = "evaluating"
         /\ request'.type \in Types /\ HasType(request'.type, request'.def)
         /\ UNCHANGED <<result, usable>>

\* The default may come back in another representation, never as another value.
IsDefault(req, v) == v.n = req.def.n
Conforms(req, res) ==
    /\ HasType(req.type, res.val)
    /\ \/ res.err = "none"
       \/ res.err \in Codes /\ IsDefault(req, res.val)

Return == /\ phase = "evaluating"
          /\ phase' = "returned"
          /\ Conforms(request, result')
          /\ UNCHANGED <<request, usable>>

Abort == /\ phase = "evaluating" /\ ~ usable
         /\ phase' = "aborted"
         /\ UNCHANGED <<request, result, usable>>

Finish == /\ phase = "returned"
          /\ phase' = "idle"
          /\ request' = NoRequest
          /\ result' = NoResult
          /\ UNCHANGED usable

\* Initialising a provider, or shutting it down, changes whether it is usable.
Change == usable' \in BOOLEAN /\ UNCHANGED <<phase, request, result>>

ContractNext == Begin \/ Return \/ Abort \/ Finish \/ Change
ContractSpec == ContractInit /\ [][ContractNext]_contractVars
=============================================================================
