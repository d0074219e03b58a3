------------------------------- MODULE MCSite -------------------------------
(* An instance of Site: two pages, the second one a directory down with a  *)
(* script of the same name beside it, and two builds of them.              *)
EXTENDS Site

CONSTANTS app1, app2, blog1, dated2

App     == <<"app.js">>
BlogApp == <<"blog", "app.js">>
Home    == <<"index.html">>
Blog    == <<"blog", "index.html">>
Latest  == <<"latest">>
Dated   == <<"APP.js">>
Rotation == <<"veil-guard-rotation.json">>

ThePaths == {App, BlogApp, Home, Blog, Latest, Dated, Rotation, ManifestPath, SigPath}
ThePageOrder == (Blog :> 1) @@ (Home :> 2)
TheFold == [p \in ThePaths |-> IF p = Dated THEN App ELSE p]

Abs(parts) == [host |-> "self", absolute |-> TRUE, parts |-> parts]
Rel(parts) == [host |-> "self", absolute |-> FALSE, parts |-> parts]
Cdn(parts) == [host |-> "cdn", absolute |-> TRUE, parts |-> parts]

T(kind, urls, integrity) == [kind |-> kind, urls |-> urls, integrity |-> integrity]
P(b, tags) == [build |-> b, whole |-> TRUE, tags |-> tags]

HomeTags == <<T("src", <<Cdn(<<"analytics.js">>)>>, <<ByHand>>),
              T("importmap", <<Abs(App), Rel(BlogApp)>>, <<>>),
              T("src", <<Rel(App)>>, <<>>)>>
BlogTags == <<T("src", <<Rel(App)>>, <<>>),
              T("src", <<Rel(<<"..", "app.js">>)>>, <<>>),
              T("inline", <<>>, <<>>)>>

TheLoads(url, page) ==
    CASE url.host = "cdn" -> CrossOrigin
      [] url = Rel(App) /\ page = Blog -> BlogApp
      [] OTHER -> App

TheOutputs ==
    << (App :> app1) @@ (BlogApp :> blog1)
       @@ (Home :> P(1, HomeTags)) @@ (Blog :> P(1, BlogTags)),
       (App :> app2) @@ (Home :> P(2, Unscannable))
       @@ (Dated :> dated2) @@ (Latest :> Symlink) >>
=============================================================================
