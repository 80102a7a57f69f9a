----------------------------- MODULE MCNodeLife -----------------------------
(***************************************************************************)
(* Instances of NodeLife for TLC.                                          *)
(***************************************************************************)
EXTENDS NodeLife, TLC

\* The default, new records every time, and a DID nothing was created with.
SomePolicies ==
    {<<"EXISTING_OR_NEW", "EXISTING_OR_NEW", "EXISTING_OR_NEW">>,
     <<"CREATE_NEW", "EXISTING_OR_NEW", "EXISTING_OR_NEW">>,
     <<"given", "EXISTING_OR_NEW", "FIND_EXISTING">>}

\* Ids, companies, settings and processes are interchangeable.
LifeAlike == Permutations(Id) \cup Permutations(Company) \cup Permutations(Server)
=============================================================================
