------------------------ MODULE MCEvidenceCollection ------------------------
(***************************************************************************)
(* A finite instance of EvidenceCollection: what the agent may claim to    *)
(* have seen.                                                              *)
(***************************************************************************)
EXTENDS EvidenceCollectionProperties

CONSTANTS u1, u2, v1, v2, c1, c2

Seeing(u, source, v, page, c) ==
    [user |-> u, source |-> source, video |-> v, page |-> page,
     comment |-> c]

\* Comments of which the agent names the page only, and a user's videos.
MCSeen ==
    {Seeing(u1, "comment_author", None, v1, c1),
     Seeing(u2, "comment_author", None, v2, c2),
     Seeing(u1, "profile", v1, None, None),
     Seeing(u1, "profile", v2, None, None)}
=============================================================================
