--------------------------- MODULE MCServiceWorker ---------------------------
(* ServiceWorker with the home page, one recipe and one asset, so that a   *)
(* cache may hold a page, a fragment and an asset, and three versions, so  *)
(* that an update follows an update that left something behind.            *)
EXTENDS ServiceWorker
=============================================================================
