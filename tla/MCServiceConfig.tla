--------------------------- MODULE MCServiceConfig ---------------------------
EXTENDS ServiceConfig, TLC

CONSTANTS CMDU, ANNU, MSCU

(* A base with one carrier off; a service section that says otherwise; a     *)
(* service section without the key; a file whose base is no map.             *)
MCContents ==
  LET base == Key(TRUE, {CMDU, ANNU}, {MSCU})
  IN  {Content("map", base, "absent", NoKey),
       Content("map", base, "map", Key(TRUE, {MSCU}, {CMDU})),
       Content("map", Key(TRUE, {MSCU}, {}), "map", NoKey),
       Content("other", NoKey, "map", base)}
=============================================================================
