------------------------------ MODULE MCRelay ------------------------------
(* An instance of Relay: an origin that serves each vantage point a page   *)
(* of its own, or the second one an older release.                         *)
EXTENDS Relay, TLC

CONSTANTS k1, html, forEu, forUs, js1, js2, Nothing, eu, us

Root == [threshold |-> 1, sigalgs |-> Algs, keys |-> Keys]

Asset(sha, content_type) == [sha |-> sha, content_type |-> content_type]

Release(version, js) ==
    [spec |-> "manifest", version |-> version, not_after |-> 9,
     trust_root |-> Root,
     assets |-> ("/index" :> Asset(html, "text/html"))
                @@ ("/app" :> Asset(js, "text/javascript"))]

PageTags ==
    [page \in {html, forEu, forUs} |->
       {[name |-> "script", ref |-> "/app", integrity |-> {js1, js2},
         stylesheet |-> FALSE]}]

Served(body, content_type) ==
    [status |-> 200, body |-> body, content_type |-> content_type]
Missing == [status |-> 404, body |-> Nothing, content_type |-> "none"]

View(release, page, js) ==
    "manifest.json" :> Served(release, "application/json")
    @@ "manifest.sig" :> Served([over |-> Message("manifest", release),
                                 valid |-> {k1} \X Algs, broken |-> {}], "text/plain")
    @@ "revocation.json" :> Missing @@ "revocation.sig" :> Missing
    @@ "/index" :> page @@ "/app" :> Served(js, "text/javascript")

Current(page) == View(Release(1, js1), Served(page, "text/html"), js1)

TheViews ==
    (eu :> {Current(forEu)})
    @@ (us :> {Current(forUs),
               View(Release(0, js2), Served(html, "text/html"), js2)})

Ranks == (eu :> 0) @@ (us :> 1)

\* "eu_0.json" before "eu_1.json" before "us_0.json".
ByLabel(f, g) == \/ f[1] < g[1]
                 \/ f[1] = g[1] /\ f[2] < g[2]
============================================================================
