----------------------- MODULE MCAuthorityEndpoints -----------------------
(* AuthorityEndpoints for TLC.                                             *)
EXTENDS AuthorityEndpoints

(* One walk, in batches and store pages of one and two, while records or   *)
(* marks change; two questions about Trust Marks while marks and keys do.  *)
MCScenarios ==
    [kinds : {{"list", "extended", "marked"}}, asks : {1}, batch : {1, 2}, pages : {1, 2},
     writers : {{"rows"}, {"marks"}}, writes : {2}]
    \cup [kinds : {{"status"}}, asks : {2}, batch : {1}, pages : {1},
          writers : {{"marks", "keys"}}, writes : {3}]
=============================================================================
