---------------------- MODULE MCAdblockURLLoaderFactory ----------------------
(* Rules and redirects for AdblockURLLoaderFactory: `page` redirects to      *)
(* `ad`, which is blocked by one list and by another list allowed; `ad` and  *)
(* `page` each have something else done to them.                             *)
EXTENDS AdblockURLLoaderFactory

CONSTANTS list, exceptions, page, ad, localhost

Only(i, urls) == [j \in Item |-> IF j = i THEN urls ELSE {}]

MCBlocking == Only(list, {ad})
MCAllowing == Only(exceptions, {ad})
MCHeaderBlocking == Only(list, {page})
MCRewriting == Only(exceptions, {page})
MCCsp == Only(list, {page, ad})
MCRedirectsTo ==
  [u \in Url |-> CASE u = page -> {ad, localhost} [] u = ad -> {} [] OTHER -> {page}]
=============================================================================
