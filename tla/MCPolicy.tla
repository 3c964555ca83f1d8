---- MODULE MCPolicy ----
(* Policy under the command lines that differ in what the checks look at: every
   set of switches with and without an allowlist, the environment against the
   command line, lists, categories, and every way to listen. *)
EXTENDS Policy

Off(state) == [f \in Switches |-> state]

Plain ==
    [given |-> Off("unset"), env |-> Off("unset"), namespaces |-> {}, kinds |-> {},
     forbidden |-> {}, accounts |-> {}, categories |-> {}, numbers |-> "in range",
     transport |-> "stdio", listen |-> "loopback", cert |-> FALSE, key |-> FALSE,
     ca |-> "none", token |-> "none", tokenFile |-> "none"]

Radius == Switches \ {"insecure"}

SwitchSettings ==
    {[Plain EXCEPT !.given = [f \in Switches |-> IF f \in on THEN "on" ELSE "unset"],
                   !.namespaces = n] :
        on \in SUBSET Radius, n \in {{}, {"team"}, {"team", "kube-system"}}}

SourceSettings ==
    {[Plain EXCEPT !.given[f] = g, !.env[f] = e] :
        f \in Radius, g \in {"unset", "on", "off"}, e \in {"unset", "on", "other"}}

ListSettings ==
    {[Plain EXCEPT !.given = [f \in Switches |-> "on"], !.kinds = k, !.forbidden = i,
                   !.accounts = a, !.categories = c] :
        k \in {{}, {"Deployment"}}, i \in {{}, {"shell"}}, a \in {{}, {"probe"}},
        c \in {{}, {"core", "operations"}, {"debug"}}}

ListenSettings ==
    {[Plain EXCEPT !.given["insecure"] = g, !.numbers = n, !.transport = t, !.listen = l,
                   !.cert = c, !.key = k, !.ca = ca, !.token = tok, !.tokenFile = f,
                   !.categories = {"core"}] :
        g \in {"unset", "on"}, n \in {"in range", "out of range"},
        t \in {"stdio", "http", "HTTP", "other"}, l \in {"loopback", "wildcard", "public"},
        c \in BOOLEAN, k \in BOOLEAN, ca \in {"none", "good", "unreadable"},
        tok \in {"none", "good", "blank"},
        f \in {"none", "good", "blank", "unreadable"}}

AllSettings == SwitchSettings \cup SourceSettings \cup ListSettings \cup ListenSettings
====
