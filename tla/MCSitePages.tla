----------------------------- MODULE MCSitePages -----------------------------
(* A small instance of SitePages for TLC. *)
EXTENDS SitePages

(* Three tickets in two orders, two of which the search finds. *)
CONSTANTS t1, t2, t3
MCListing == <<t1, t2, t3>>
MCOrderOf == [t \in {t1, t2, t3} |-> IF t = t3 THEN 2 ELSE 1]
MCMatching == {t1, t3}

(* Three events of the timeline in two decades, one of them in two categories. *)
CONSTANTS founding, opening, anniversary
MCItems == {founding, opening, anniversary}
MCTagsOf == [i \in MCItems |-> CASE i = founding -> {"founding"}
                                 [] i = opening -> {"cabin life"}
                                 [] OTHER -> {"cabin life", "anniversary"}]
MCDecadeOf == [i \in MCItems |-> IF i = anniversary THEN 2 ELSE 1]
=============================================================================
