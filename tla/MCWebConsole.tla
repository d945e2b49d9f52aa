---------------------------- MODULE MCWebConsole ----------------------------
EXTENDS WebConsole, TLC

MCKeys == "tun" :> {"enable", "stack"} @@ "top" :> {"mode"}

(* Rows with a field the form shows and one it does not; imported ones of  *)
(* a type the forms do not know, a group that repeats a member.            *)
MCProxyRows ==
    {[type |-> "ss", config |-> ("server" :> "ss" @@ "cipher" :> "ss" @@ "plugin" :> "ss")],
     [type |-> "vmess", config |-> ("server" :> "vmess" @@ "uuid" :> "vmess" @@ "tls" :> "vmess")],
     [type |-> "wireguard", config |-> ("server" :> "wireguard" @@ "mtu" :> "wireguard")]}
MCGroupRows ==
    {[type |-> "fallback", members |-> <<"a">>, config |-> ("url" :> "stored" @@ "lazy" :> "stored")],
     [type |-> "smart", members |-> <<"b", "b">>, config |-> << >>]}
MCRuleRows == {[type |-> "IP-CIDR", payload |-> "IP-CIDR", noResolve |-> TRUE]}
MCProviderRows == {[type |-> "http", config |-> ("url" :> "stored" @@ "path" :> "stored")]}
=============================================================================
