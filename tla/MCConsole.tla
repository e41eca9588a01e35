----------------------------- MODULE MCConsole -----------------------------
\* The parts behind the HTTP API for TLC: the rows of a project, the caches and
\* limits a request passes, the evaluation of an uptime rule, the handlers that
\* read before they write, the notification channels and the mail notifier, the
\* OTLP endpoints, the infrastructure worker, the calls of the clients and the
\* views of a trace.  They share no state the models speak of, so each behaviour
\* runs one of them, `part`.
EXTENDS Tenancy, ProjectCaches, RateLimits, RulesEngine, ReadThenWrite, Channels,
    MailNotifier, OtlpIntake, InfraWorker, ApiAccess, TraceViews, TLC

VARIABLE part

vars == <<part, tenancyVars, cachesVars, limitsVars, rulesVars, writeVars,
          channelsVars, mailVars, otlpVars, infraVars, accessVars, viewsVars>>

Init ==
    /\ part \in {"tenancy", "caches", "limits", "rules", "write", "channels",
                 "mail", "otlp", "infra", "api", "views"}
    /\ TenancyInit
    /\ part # "caches" => watched = "key"
    /\ CachesInit
    /\ part # "limits" => limiter = "host"
    /\ LimitsInit
    /\ RulesInit
    /\ part # "write" => object = "incident"
    /\ WriteInit
    /\ part # "channels" => /\ channel = Telegram /\ key = NoKey
                            /\ inEnv = FALSE /\ oddValue = FALSE /\ production = FALSE
    /\ ChannelsInit
    /\ MailInit /\ (part = "mail" <=> mail # "off")
    /\ OtlpInit
    /\ part # "otlp" => /\ export.signal = "logs" /\ export.fact.about = "level"
                        /\ export.fact.form = "word" /\ export.items = 0
                        /\ export.body = "sound" /\ export.key = "good"
    /\ InfraInit
    /\ AccessInit
    /\ part # "views" => /\ view = "tree" /\ startOf = [s \in SpanIds |-> 1]
                         /\ parentOf = [s \in SpanIds |-> NoSpan]
    /\ ViewsInit

Next ==
    \/ /\ part = "tenancy" /\ TenancyNext
       /\ UNCHANGED <<part, cachesVars, limitsVars, rulesVars, writeVars,
                       channelsVars, mailVars, otlpVars, infraVars, accessVars,
                       viewsVars>>
    \/ /\ part = "caches" /\ CachesNext
       /\ UNCHANGED <<part, tenancyVars, limitsVars, rulesVars, writeVars,
                       channelsVars, mailVars, otlpVars, infraVars, accessVars,
                       viewsVars>>
    \/ /\ part = "limits" /\ LimitsNext
       /\ UNCHANGED <<part, tenancyVars, cachesVars, rulesVars, writeVars,
                       channelsVars, mailVars, otlpVars, infraVars, accessVars,
                       viewsVars>>
    \/ /\ part = "rules" /\ RulesNext
       /\ UNCHANGED <<part, tenancyVars, cachesVars, limitsVars, writeVars,
                       channelsVars, mailVars, otlpVars, infraVars, accessVars,
                       viewsVars>>
    \/ /\ part = "write" /\ WriteNext
       /\ UNCHANGED <<part, tenancyVars, cachesVars, limitsVars, rulesVars,
                       channelsVars, mailVars, otlpVars, infraVars, accessVars,
                       viewsVars>>
    \/ /\ part = "channels" /\ ChannelsNext
       /\ UNCHANGED <<part, tenancyVars, cachesVars, limitsVars, rulesVars,
                       writeVars, mailVars, otlpVars, infraVars, accessVars,
                       viewsVars>>
    \/ /\ part = "mail" /\ MailNext
       /\ UNCHANGED <<part, tenancyVars, cachesVars, limitsVars, rulesVars,
                       writeVars, channelsVars, otlpVars, infraVars, accessVars,
                       viewsVars>>
    \/ /\ part = "otlp" /\ OtlpNext
       /\ UNCHANGED <<part, tenancyVars, cachesVars, limitsVars, rulesVars,
                       writeVars, channelsVars, mailVars, infraVars, accessVars,
                       viewsVars>>
    \/ /\ part = "infra" /\ InfraNext
       /\ UNCHANGED <<part, tenancyVars, cachesVars, limitsVars, rulesVars,
                       writeVars, channelsVars, mailVars, otlpVars, accessVars,
                       viewsVars>>
    \/ /\ part = "api" /\ AccessNext
       /\ UNCHANGED <<part, tenancyVars, cachesVars, limitsVars, rulesVars,
                       writeVars, channelsVars, mailVars, otlpVars, infraVars,
                       viewsVars>>
    \/ /\ part = "views" /\ ViewsNext
       /\ UNCHANGED <<part, tenancyVars, cachesVars, limitsVars, rulesVars,
                       writeVars, channelsVars, mailVars, otlpVars, infraVars,
                       accessVars>>

Spec == Init /\ [][Next]_vars

TypeOK ==
    /\ TenancyTypeOK /\ CachesTypeOK /\ LimitsTypeOK /\ RulesTypeOK /\ WriteTypeOK
    /\ ChannelsTypeOK /\ MailTypeOK /\ OtlpTypeOK /\ InfraTypeOK /\ AccessTypeOK /\ ViewsTypeOK

Symmetry == Permutations(Projects)
=============================================================================
