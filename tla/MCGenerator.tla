---------------------------- MODULE MCGenerator ------------------------------
(* A small instance of CommandGenerator: an Application, an edit of it, one  *)
(* of the same name in another namespace whose argument is misread, one of   *)
(* another name, one with the OAuth2 attribute, and one whose name is        *)
(* misread; and a configuration with an annotation that is.                  *)
EXTENDS CommandGenerator

MCAppTag == [a \in AppName |-> "modoki-" \o a \o "-app"]

MCText ==
  ChartText \union {MCAppTag[a] : a \in AppName}
    \union {"blog", "shop", "httpd", "default", "a.example", "b.example", "8080", "on",
            "robot"}

Buffering == "nginx.ingress.kubernetes.io/proxy-buffering"
MCKey == ChartKey \union {Buffering}

MCObjectName == AppName \X ChildId
MCNameOf == [a \in AppName |-> [id \in ChildId |-> <<a, id>>]]

App(name, namespace, domains, image, args, oauth2, account) ==
  [metadata |-> [name |-> name, namespace |-> namespace],
   spec |-> [domains |-> domains, image |-> image, command |-> Undefined, args |-> args,
             attributes |-> [a \in {"modoki.tsuzu.dev/oauth2"} |-> oauth2],
             serviceAccount |-> account, imagePullSecret |-> account]]

MCApps ==
  {App("blog", "n1", <<"a.example">>, Undefined, Undefined, Undefined, Undefined),
   App("blog", "n1", <<"b.example", "a.example">>, "httpd", <<"8080">>, Undefined, "robot"),
   App("blog", "n2", <<"a.example">>, "httpd", <<"on">>, Undefined, Undefined),
   App("shop", "n1", <<"b.example">>, "httpd", Undefined, Undefined, Undefined),
   App("shop", "n1", <<"b.example">>, "httpd", Undefined, "default", Undefined),
   App("on", "n1", <<"b.example">>, "httpd", Undefined, Undefined, Undefined)}

Nothing == [field \in DOMAIN DefaultConfig |-> Undefined]

MCConfigs ==
  {Undefined, Nothing,
   [Nothing EXCEPT !.ingressAnnotations = Entry(IngressClass, "nginx")],
   [Nothing EXCEPT !.ingressAnnotations = Entry(Buffering, "on")]}
=============================================================================
