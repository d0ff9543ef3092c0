----------------- MODULE MCFilteringConfigurationMaintainer -----------------
(* Values for the constants of FilteringConfigurationMaintainer.            *)
EXTENDS FilteringConfigurationMaintainer

CONSTANTS easylist, exceptionrules, custom, query

MCPreload == {easylist} \cap Url
MCMatches == [p \in MCPreload |-> {p}]

\* All URLs lack a query, except that `query` is `custom` with one.
MCStripQuery == [u \in Url |-> IF u = query THEN custom ELSE u]

\* Only the count of the Acceptable Ads list is followed.
MCCountCap == [u \in Url |-> IF u = exceptionrules THEN 1 ELSE 0]

MCNoRedirects == [u \in Url |-> {}]

\* Two lists may have moved to each other.
MCRedirects ==
  [u \in Url |-> IF u \in {easylist, custom} THEN {easylist, custom} \ {u} ELSE {}]
=============================================================================
