------------------------------- MODULE MCAlerter -------------------------------
(***************************************************************************)
(* TLC instances of Alerter.  The collection holds two rules that both     *)
(* apply to every document, or one for a service and two that are not      *)
(* compiled: one is disabled, one has an invalid pattern.  A first         *)
(* load that fails leaves no rules, the case of the rule fatal-default.    *)
(***************************************************************************)
EXTENDS Alerter

CONSTANTS fatal, error, info,                   \* documents
          slow, every, auth, off, bad,          \* rules
          default, any, invalid, api, web, timeout \* names

MCEvents == {fatal, error, info}
DocOf(service, level) ==
    [service |-> service, level |-> level, hits |-> {timeout}, garbled |-> FALSE]
MCDoc ==
    [e \in MCEvents |->
        CASE e = fatal -> DocOf(web, "FATAL")
          [] e = error -> DocOf(api, "ERROR")
          [] e = info -> DocOf(api, "INFO")]

(* Enough for a document that waits while another is evaluated. *)
MCWanted == {fatal, error}

MCRules == {slow, every, auth, off, bad}
RuleOf(service, pattern) ==
    [service |-> service, level |-> any, pattern |-> pattern,
     enabled |-> TRUE, webhook |-> FALSE]
MCRule ==
    [r \in MCRules |->
        CASE r = slow -> RuleOf(any, timeout)
          [] r = every -> RuleOf(any, any)
          [] r = auth -> RuleOf(api, any)
          [] r = off -> [RuleOf(any, any) EXCEPT !.enabled = FALSE]
          [] r = bad -> RuleOf(any, invalid)]

MCContents == {<<slow, every>>, <<off, bad, auth>>}
=============================================================================
