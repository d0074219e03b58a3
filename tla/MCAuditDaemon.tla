--------------------------- MODULE MCAuditDaemon ---------------------------
(* An instance of AuditDaemon: a page and its script, two releases, and a  *)
(* revocation of the key that signs them.                                  *)
EXTENDS AuditDaemon, TLC

CONSTANTS k1, k2, html, injected, js1, js2, Nothing

Root == [threshold |-> 1, sigalgs |-> Algs, keys |-> Keys]

Asset(sha, content_type) == [sha |-> sha, content_type |-> content_type]

Release(version, js) ==
    [spec |-> "manifest", version |-> version, not_after |-> version + 1,
     trust_root |-> Root,
     assets |-> ("/index" :> Asset(html, "text/html"))
                @@ ("/app" :> Asset(js, "text/javascript"))]

Revocation ==
    [spec |-> "revocation", version |-> 1, not_after |-> 9, trust_root |-> Root,
     revoked_keys |-> <<k1>>]

Signed(key, prefix, payload) ==
    [over |-> Message(prefix, payload), valid |-> {key} \X Algs, broken |-> {}]

Tag(ref, integrity) == [name |-> "script", ref |-> ref, integrity |-> integrity,
                        stylesheet |-> FALSE]

\* The page allows the script of either release.
PageTags == (html :> {Tag("/app", {js1, js2}), Tag(CrossOrigin, NoIntegrity)})
            @@ (injected :> {Tag("/app", {js1, js2}), Tag("/extra", NoIntegrity)})
            @@ (js1 :> Unscannable)

Served(body, content_type) ==
    [status |-> 200, body |-> body, content_type |-> content_type]
Status(n) == [status |-> n, body |-> Nothing, content_type |-> "none"]
Json(body) == Served(body, "application/json")

R1 == Release(0, js1)
R2 == Release(1, js2)

TheAnswers ==
    "manifest.json" :> {Json(R1), Json(R2), Status(404)}
    @@ "manifest.sig" :> {Json(Signed(k1, "manifest", R1)),
                          Json(Signed(k1, "manifest", R2))}
    @@ "revocation.json" :> {Json(Revocation), Status(404)}
    @@ "revocation.sig" :> {Json(Signed(k2, "revocation", Revocation)), Status(404)}
    @@ "/index" :> {Served(html, "text/html"), Served(injected, "text/html"),
                    Served(js1, "text/html"), Status(500)}
    @@ "/app" :> {Served(js1, "text/javascript"), Served(js2, "text/javascript"),
                  Served(js1, "text/html"), Served(js2, Untyped), Status(302)}
    @@ "/extra" :> {Status(404)}

TheHonest ==
    "manifest.json" :> Json(R1)
    @@ "manifest.sig" :> Json(Signed(k1, "manifest", R1))
    @@ "revocation.json" :> Status(404) @@ "revocation.sig" :> Status(404)
    @@ "/index" :> Served(html, "text/html")
    @@ "/app" :> Served(js1, "text/javascript")
    @@ "/extra" :> Status(404)

TheNextRelease ==
    "manifest.json" :> Json(R2)
    @@ "manifest.sig" :> Json(Signed(k1, "manifest", R2))
    @@ "/app" :> Served(js2, "text/javascript")
    @@ TheHonest

\* The instance starts where HonestOriginPagesNoOne does.
ASSUME InstanceIsHonest == HonestDeployment
============================================================================
