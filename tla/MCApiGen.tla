------------------------------ MODULE MCApiGen ------------------------------
(* Small instances of ApiGen for TLC: two .api file names, two folders,    *)
(* two handlers and one middleware; the groups below cover every policy    *)
(* outcome genRoutes distinguishes.                                        *)
EXTENDS ApiGen

CONSTANTS n1, n2, f1, f2, h1, h2, m1, l1, l2

MCNames == {n1, n2}
MCFolders == {f1, f2}
MCHandlers == {h1, h2}
MCMiddlewares == {m1}
MCLogicNames == {l1, l2}

(* Names whose Logic fields differ, as "user.api" and "role.api".          *)
MCLogicBase == [n \in MCNames |-> IF n = n1 THEN l1 ELSE l2]

Route(h, fo) == [handler |-> h, folder |-> fo]

(* A group with the given folder, timeout (ns), maxBytes, middleware and   *)
(* routes.                                                                 *)
NoTimeout == [kind |-> "none", ns |-> 0]
Unparsable == [kind |-> "unparsable", ns |-> 0]
Timeout(ns) == [kind |-> "value", ns |-> ns]

Grp(fo, t, mb, mw, rs) ==
    [folder |-> fo, timeout |-> t, maxBytes |-> mb, mw |-> mw, routes |-> rs]

Auth == <<[name |-> m1, pad |-> FALSE]>>

(* "500ms": accepted, with middleware.                                     *)
GTimeout == Grp(f1, Timeout(500000000), "none", Auth, <<Route(h1, NoFolder)>>)
(* no annotation at all                                                    *)
GPlain == Grp(f2, NoTimeout, "ok", <<>>, <<Route(h2, NoFolder)>>)
(* "1ns": below the threshold                                              *)
GTiny == Grp(f2, Timeout(1), "none", <<>>, <<Route(h2, NoFolder)>>)
(* "1": time.ParseDuration reports a missing unit                          *)
GUnparsable == Grp(f1, Unparsable, "none", <<>>, <<Route(h1, NoFolder)>>)
(* maxBytes that strconv.ParseInt rejects                                  *)
GBadBytes == Grp(f1, NoTimeout, "bad", Auth, <<Route(h1, NoFolder)>>)
(* a route whose own group annotation moves it to f2                       *)
GMoved == Grp(f1, NoTimeout, "none", <<>>, <<Route(h1, f2)>>)
(* two groups of one file sharing folder f1                                *)
GSame1 == Grp(f1, NoTimeout, "none", <<>>, <<Route(h1, NoFolder)>>)
GSame2 == Grp(f1, NoTimeout, "none", <<>>, <<Route(h2, NoFolder)>>)

File(n, k, gs) == [name |-> n, kind |-> k, groups |-> gs]

(* Files mixing accepted and rejected groups, and files that are skipped.  *)
CatalogPass ==
    UNION {{File(n, "ok", <<GTimeout, GPlain>>),
            File(n, "ok", <<GPlain>>),
            File(n, "ok", <<GPlain, GTiny>>),
            File(n, "ok", <<GUnparsable>>),
            File(n, "ok", <<GBadBytes, GTimeout>>),
            File(n, "ok", <<GSame1, GSame2>>),
            File(n, "unparsable", <<GTimeout>>),
            File(n, "invalid", <<GPlain>>),
            File(n, "all", <<>>)} : n \in MCNames}

(* The same files, and one whose route moves its handler to another      *)
(* folder with its own group annotation.                                   *)
CatalogMoved == CatalogPass \cup {File(n, "ok", <<GMoved>>) : n \in MCNames}

(* Backups left by earlier runs: one expired, one still kept.              *)
MCOldBackups == {[file |-> n1, age |-> 9], [file |-> n2, age |-> 3]}

=============================================================================
