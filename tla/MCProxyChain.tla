---------------------------- MODULE MCProxyChain ----------------------------
(* An instance of ProxyChain for TLC.                                         *)
EXTENDS ProxyChain

\* The chain autoproxychain builds for socks5_proxy.
Socks5Env == {AutoOrder("socks5_proxy")}

=============================================================================
