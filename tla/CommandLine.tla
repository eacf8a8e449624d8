----------------------------- MODULE CommandLine -----------------------------
(***************************************************************************)
(* src/cli.ts, the part without effects: which command lines each command  *)
(* accepts, what the packets it prints show of them, and the command lines *)
(* that packets print for the operator to run next.  A command line is a   *)
(* sequence of words, the first of which names the command.  The words     *)
(* "npm run" before a printed command and "--" after it are left out, and  *)
(* so are the messages of refusals, the fixed sentences of a packet and    *)
(* its fixed denials (no packet approves or changes anything).             *)
(***************************************************************************)
EXTENDS Naturals, Sequences, TLC

CONSTANTS Blank,      \* texts of white space
          Spaced,     \* texts with white space in them
          Numeral,    \* texts that read as a positive integer, and how it is written
          Instant,    \* the day that each readable date/time text stands for
          IsoText,    \* what toISOString gives for a day
          Environment \* environment variables that are set, and their texts

ASSUME NumeralAssumption ==  \* what is written can be read again
    \A n \in DOMAIN Numeral : Numeral[n] \in DOMAIN Numeral /\ Numeral[Numeral[n]] = Numeral[n]
ASSUME InstantAssumption ==
    \A t \in DOMAIN Instant : /\ Instant[t] \in DOMAIN IsoText /\ IsoText[Instant[t]] \in DOMAIN Instant
                              /\ Instant[IsoText[Instant[t]]] = Instant[t]

-----------------------------------------------------------------------------
\* Reading words.

Scope  == {"--tenant-id", "--workspace-id", "--user-id"}
Dates  == {"--as-of", "--window-start", "--window-end"}
Limits == {"--max-subscriptions", "--max-events", "--max-attempts"}
Keys   == {"--encrypt-key-env", "--decrypt-key-env"}
Free   == Scope \cup {"--database", "--backup", "--restore", "--output", "--confirm", "--type",
                      "--source-system", "--incident-id", "--migrations-dir"}
FailureClasses == {"network", "receiver", "signature", "throttling", "contract", "privacy",
                   "cross-scope", "worker"}

\* What a command checks of the value of an option; an option that is not
\* named here is the label of some evidence, which must not be blank.
Valid(option, value) ==
    IF option \in Free THEN TRUE
    ELSE IF option \in Dates THEN value \in DOMAIN Instant
    ELSE IF option \in Limits THEN value \in DOMAIN Numeral
    ELSE IF option \in Keys THEN value \in DOMAIN Environment
    ELSE IF option = "--environment" THEN value \notin Blank \cup Spaced
    ELSE IF option = "--backend" THEN value \in {"sqlite", "postgres"}
    ELSE IF option = "--status" THEN value \in {"UNREVIEWED", "REVIEWED"}
    ELSE IF option = "--failure-class" THEN value \in FailureClasses
    ELSE value \notin Blank

Refused == [ok |-> FALSE, option |-> "", values |-> << >>, flags |-> {}]
Accepting(option, values, flags) == [ok |-> TRUE, option |-> option, values |-> values, flags |-> flags]

\* One word after the others: the value of the option before it, whatever it
\* looks like, or a flag, or an option.
Read(args, far, word) ==
    IF ~far.ok THEN Refused
    ELSE IF far.option # "" THEN
        IF word = "" THEN Refused
        ELSE Accepting("", [o \in DOMAIN far.values \cup {far.option} |->
                               IF o = far.option THEN word ELSE far.values[o]], far.flags)
    ELSE IF word = "" THEN far
    ELSE IF word \in args.flags THEN Accepting("", far.values, far.flags \cup {word})
    ELSE IF word \in args.required \cup args.optional THEN Accepting(word, far.values, far.flags)
    ELSE Refused

ParseNamedArgs(args, words) ==
    LET after[i \in 0 .. Len(words)] == IF i = 0 THEN Accepting("", << >>, {}) ELSE Read(args, after[i - 1], words[i])
        read == after[Len(words)]
    IN  IF read.ok /\ read.option = "" /\ args.required \subseteq DOMAIN read.values
        THEN read ELSE Refused

Args(required, flags, optional) ==
    [required |-> required, flags |-> flags, optional |-> optional]

\* postgres:migrate reads its own words: an empty one is an unknown option.
PostgresMigrateArgs == Args({}, {"--dry-run", "--json"}, {"--migrations-dir"})
ParsePostgresMigrateArgs(words) ==
    IF \E i \in DOMAIN words : words[i] = "" THEN Refused
    ELSE ParseNamedArgs(PostgresMigrateArgs, words)

-----------------------------------------------------------------------------
\* Commands with effects.

SqliteBackupArgs == Args({"--database", "--backup"}, {"--json"}, {"--encrypt-key-env"})
SqliteRestoreArgs ==
    Args({"--backup", "--restore"} \cup Scope, {"--overwrite", "--json"},
         {"--confirm", "--decrypt-key-env"})
SqliteExportArgs == Args({"--database"} \cup Scope, {}, {"--output"})
SqliteDeleteWorkspaceArgs == Args({"--database"} \cup Scope, {"--json"}, {"--confirm"})
RetentionSqliteCleanupArgs ==
    Args({"--database", "--as-of"} \cup Scope, {"--apply", "--json"}, {"--confirm"})
RetentionPostgresCleanupArgs ==
    Args({"--as-of"} \cup Scope, {"--apply", "--json"}, {"--confirm"})

\* The words an operator repeats to confirm the loss of data.
Slash == "/"
ScopedConfirmation(v) == v["--tenant-id"] \o Slash \o v["--workspace-id"] \o Slash \o v["--user-id"]
TimedScopedConfirmation(v) == ScopedConfirmation(v) \o Slash \o IsoText[Instant[v["--as-of"]]]
RestoreOverwriteConfirmation(v) == ScopedConfirmation(v) \o "/overwrite/" \o v["--restore"]
Confirms(parsed, text) ==
    "--confirm" \in DOMAIN parsed.values /\ parsed.values["--confirm"] = text

-----------------------------------------------------------------------------
\* Packets.  One printed as text is `silent' about some of the options that
\* the same packet shows as JSON.

Packet(args, silent) == [args |-> args, silent |-> silent]
FullPacket(args) == Packet(args, {})

Review == Scope \cup {"--environment", "--as-of"}
ReviewArgs(labels) == Args(Review \cup labels, {"--json"}, {})
BriefPacket(args, labels) == Packet(args, args.required \ (Review \cup labels))

RetentionPolicyArgs == Args({}, {"--json"}, {"--as-of"})
RetentionOperatorArgs == Args({"--backend", "--as-of"} \cup Scope, {"--json"}, {"--database"})
RetentionOperatorPacket == Packet(RetentionOperatorArgs, {"--database"})

HostedRetentionCleanupArgs == ReviewArgs({"--window-start", "--window-end", "--dry-run-evidence",
        "--backup-evidence", "--approval-record", "--legal-support-review", "--rollback-plan",
        "--second-operator"})
HostedRetentionCleanupPacket == FullPacket(HostedRetentionCleanupArgs)

DestructiveApprovalReadinessArgs == ReviewArgs({"--operation", "--approval-policy",
        "--dry-run-diff", "--fresh-backup", "--restore-smoke", "--exact-confirmation",
        "--two-operator-approval", "--legal-support-approval", "--scope-proof",
        "--maintenance-window", "--rollback-procedure", "--audit-retention",
        "--hosted-scheduler-disablement", "--remote-ci"})
DestructiveApprovalReadinessPacket == BriefPacket(DestructiveApprovalReadinessArgs, {"--operation",
        "--approval-policy"})

AuthProductionReadinessArgs == ReviewArgs({"--backend", "--identity-provider", "--session-store",
        "--authorization-matrix", "--role-membership-proof", "--session-lifecycle",
        "--reset-token-lifecycle", "--lockout-pruning", "--cookie-transport", "--startup-guard",
        "--migration-plan", "--rollback-drill", "--remote-ci", "--rollback-plan",
        "--second-operator"})
AuthProductionReadinessPacket == Packet(AuthProductionReadinessArgs, {"--second-operator"})

AuthAuthorizationMatrixArgs == ReviewArgs({"--matrix", "--backend"})
AuthAuthorizationMatrixPacket == FullPacket(AuthAuthorizationMatrixArgs)

RateLimitProductionReadinessArgs == ReviewArgs({"--edge-layer", "--store",
        "--provider-quota-policy", "--trusted-proxy-proof", "--hosted-alert-routing",
        "--hosted-dashboard", "--abuse-analytics", "--remote-ci", "--rollback-plan",
        "--second-operator"})
RateLimitProductionReadinessPacket == FullPacket(RateLimitProductionReadinessArgs)

ProviderLifecycleReadinessArgs == ReviewArgs({"--provider", "--managed-secret-custody",
        "--rotation-drill", "--revocation-drill", "--write-back-safety", "--hosted-alert-routing",
        "--provider-runbook", "--remote-ci", "--rollback-plan", "--second-operator"})
ProviderLifecycleReadinessPacket == FullPacket(ProviderLifecycleReadinessArgs)

CalendarUiProductionReadinessArgs == ReviewArgs({"--browser-matrix", "--conflict-workflow",
        "--write-back-acknowledgement", "--accessibility-audit", "--responsive-polish",
        "--visual-regression", "--product-owner-approval", "--remote-ci", "--rollback-plan",
        "--second-operator"})
CalendarUiProductionReadinessPacket == Packet(CalendarUiProductionReadinessArgs, {
        "--second-operator"})

WebAppProductionReadinessArgs == ReviewArgs({"--deployment-target", "--production-build",
        "--authenticated-write-flow", "--security-headers", "--csrf-cookie-transport",
        "--throttle-policy", "--durable-storage", "--cache-policy", "--health-startup-guard",
        "--browser-matrix", "--accessibility-audit", "--responsive-polish", "--visual-regression",
        "--operator-review", "--remote-ci", "--rollback-plan", "--second-operator"})
WebAppProductionReadinessPacket == FullPacket(WebAppProductionReadinessArgs)

ProductionDeploymentReadinessArgs == ReviewArgs({"--deployment-topology", "--tls-termination",
        "--reverse-proxy-headers", "--security-headers", "--startup-guards", "--health-checks",
        "--durable-storage", "--cookie-csrf-transport", "--trusted-proxy-throttle",
        "--static-asset-cache", "--log-redaction", "--backup-rollback",
        "--remote-ci-deployment-smoke", "--operator-review", "--second-operator"})
ProductionDeploymentReadinessPacket == FullPacket(ProductionDeploymentReadinessArgs)

IcsProductionReadinessArgs == ReviewArgs({"--recurrence-suite", "--timezone-dst-proof",
        "--sync-idempotency", "--import-preview-ux", "--export-privacy-redaction",
        "--write-back-conflict-preview", "--provider-neutral-contract", "--provider-fixture-suite",
        "--large-calendar-fixture", "--browser-workflow", "--remote-ci", "--rollback-plan",
        "--second-operator"})
IcsProductionReadinessPacket == Packet(IcsProductionReadinessArgs, {"--second-operator"})

ProviderCsvProductionReadinessArgs == ReviewArgs({"--fixture-suite", "--download-upload-workflow",
        "--confirmation-ux", "--provider-policy", "--browser-workflow", "--abuse-analytics",
        "--large-fixture-suite", "--formula-injection-regression", "--field-mapping-privacy",
        "--remote-ci", "--rollback-plan", "--second-operator"})
ProviderCsvProductionReadinessPacket == FullPacket(ProviderCsvProductionReadinessArgs)

PublicEventsHostedDeliveryReadinessArgs == ReviewArgs({"--secret-provider", "--runtime-identity",
        "--rotation-drill", "--worker-topology", "--retry-queue", "--dead-letter-queue",
        "--hosted-dashboard", "--alert-routing", "--replay-boundary", "--rate-limit-header-key",
        "--incident-drill", "--remote-ci", "--rollback-plan", "--second-operator"})
PublicEventsHostedDeliveryReadinessPacket == FullPacket(PublicEventsHostedDeliveryReadinessArgs)

RemoteCiPostgresReadinessArgs == ReviewArgs({"--ci-provider", "--postgres-service"})
RemoteCiPostgresReadinessPacket == FullPacket(RemoteCiPostgresReadinessArgs)

PublicRemoteCiReadinessArgs == ReviewArgs({"--ci-provider", "--workflow-suite",
        "--target-repository", "--workflow-run", "--check-run", "--production-dependency-audit",
        "--no-git-directory", "--release-safety-scan", "--docs-link-check", "--license-check",
        "--log-sanitization", "--artifact-retention", "--branch-protection-review",
        "--repository-settings-readiness", "--second-operator"})
PublicRemoteCiReadinessPacket == BriefPacket(PublicRemoteCiReadinessArgs, {"--ci-provider",
        "--workflow-suite", "--target-repository"})

RepositoryLaunchReadinessArgs == ReviewArgs({"--target", "--history-plan", "--final-release-gate",
        "--clean-public-history", "--privacy-secret-scan", "--license-audit-pass",
        "--security-audit-pass", "--security-policy-contact", "--remote-ci-pass",
        "--name-collision-review", "--trademark-review", "--first-commit-staging",
        "--repository-settings", "--second-operator"})
RepositoryLaunchReadinessPacket == BriefPacket(RepositoryLaunchReadinessArgs, {"--target",
        "--history-plan"})

RepositorySettingsReadinessArgs == ReviewArgs({"--target-repository", "--settings-profile",
        "--branch-policy", "--branch-protection-settings", "--required-status-checks",
        "--security-advisory-settings", "--default-branch-merge-policy",
        "--maintainer-access-review", "--dependabot-alerts", "--secret-scanning-push-protection",
        "--release-package-permissions", "--repository-metadata",
        "--public-issue-discussion-settings", "--second-operator"})
RepositorySettingsReadinessPacket == BriefPacket(RepositorySettingsReadinessArgs, {
        "--target-repository", "--settings-profile", "--branch-policy"})

CleanHistoryReadinessArgs == ReviewArgs({"--history-scope", "--source-root", "--no-git-directory",
        "--release-safety-scan", "--first-commit-staging-manifest", "--generated-artifact-review",
        "--fixture-sanitization", "--license-notice-readiness", "--repository-naming",
        "--remote-ci-plan", "--second-operator"})
CleanHistoryReadinessPacket == BriefPacket(CleanHistoryReadinessArgs, {"--history-scope",
        "--source-root"})

GeneratedArtifactReviewArgs == ReviewArgs({"--artifact-scope", "--manifest"})
GeneratedArtifactReviewPacket == FullPacket(GeneratedArtifactReviewArgs)

SecurityPolicyContactReadinessArgs == ReviewArgs({"--contact-channel", "--responsible-party",
        "--disclosure-workflow", "--advisory-settings", "--response-sla", "--escalation-path",
        "--private-report-sanitization", "--remote-ci-security-workflow", "--second-operator"})
SecurityPolicyContactReadinessPacket == BriefPacket(SecurityPolicyContactReadinessArgs, {
        "--contact-channel", "--responsible-party"})

FinalSecurityAuditReadinessArgs == ReviewArgs({"--audit-scope", "--dependency-audit-pass",
        "--secret-scan", "--privacy-scan", "--production-auth", "--role-membership",
        "--reset-token-lifecycle", "--rate-limit-abuse-monitoring",
        "--provider-managed-secret-lifecycle", "--deployment-tls-proxy-headers", "--remote-ci",
        "--security-policy-contact", "--final-source-review", "--second-operator"})
FinalSecurityAuditReadinessPacket == BriefPacket(FinalSecurityAuditReadinessArgs, {"--audit-scope"})

FinalLicensingAuditReadinessArgs == ReviewArgs({"--audit-scope", "--final-license-check",
        "--lockfile-dependency-licenses", "--installed-dependency-metadata",
        "--copied-source-scan", "--fixture-template-example-review",
        "--asset-media-font-binary-review", "--documentation-reuse-scan",
        "--reused-material-inventory", "--notice-review", "--root-license-consistency",
        "--final-release-candidate-freeze", "--second-operator"})
FinalLicensingAuditReadinessPacket == BriefPacket(FinalLicensingAuditReadinessArgs, {
        "--audit-scope"})

FinalPrivacyAuditReadinessArgs == ReviewArgs({"--audit-scope", "--release-safety-scan",
        "--fixture-sanitization", "--generated-artifact-review", "--log-export-backup-review",
        "--provider-identifier-review", "--local-path-private-url-review",
        "--private-leadership-boundary", "--calendar-task-minimization", "--ai-redaction-boundary",
        "--retention-export-deletion-revocation", "--second-operator"})
FinalPrivacyAuditReadinessPacket == BriefPacket(FinalPrivacyAuditReadinessArgs, {"--audit-scope"})

FinalReleaseGateReadinessArgs == ReviewArgs({"--release-scope", "--functionality-gate",
        "--storage-gate", "--documentation-gate", "--security-audit-pass",
        "--licensing-audit-pass", "--privacy-audit-pass", "--dependency-audit-final-pass",
        "--remote-ci-pass", "--clean-history", "--security-policy-contact",
        "--repository-settings", "--final-source-review", "--second-operator"})
FinalReleaseGateReadinessPacket == BriefPacket(FinalReleaseGateReadinessArgs, {"--release-scope"})

DependencyAuditReadinessArgs == ReviewArgs({"--audit-scope", "--package-manager",
        "--production-audit", "--lockfile-proof", "--installed-tree", "--runtime-inventory",
        "--dev-dependency-exclusion", "--override-review", "--license-alignment",
        "--registry-secret-absence", "--remote-ci", "--second-operator"})
DependencyAuditReadinessPacket == BriefPacket(DependencyAuditReadinessArgs, {"--audit-scope",
        "--package-manager"})

Bounds == {"--type", "--source-system", "--max-subscriptions", "--max-events"}
PublicEventDeliveryOperatorArgs == Args({"--as-of"} \cup Scope, {"--json"}, Bounds)
PublicEventDeliveryOperatorPacket == FullPacket(PublicEventDeliveryOperatorArgs)

PublicEventDeadLetterQueueArgs ==
    Args({"--as-of"} \cup Scope, {"--json"}, {"--max-attempts", "--type", "--status"})
PublicEventDeadLetterQueuePacket == FullPacket(PublicEventDeadLetterQueueArgs)

PublicEventDeliveryIncidentDrillArgs ==
    Args({"--as-of", "--incident-id", "--failure-class"} \cup Scope, {"--json"}, Bounds)
PublicEventDeliveryIncidentDrillPacket == FullPacket(PublicEventDeliveryIncidentDrillArgs)

Packets ==
       "retention:operator-packet" :> RetentionOperatorPacket
    @@ "public-events:delivery-operator-packet" :> PublicEventDeliveryOperatorPacket
    @@ "public-events:dead-letter-queue-packet" :> PublicEventDeadLetterQueuePacket
    @@ "public-events:delivery-incident-drill-packet" :> PublicEventDeliveryIncidentDrillPacket
    @@ "retention:hosted-cleanup-packet" :> HostedRetentionCleanupPacket
    @@ "retention:destructive-approval-readiness-packet" :> DestructiveApprovalReadinessPacket
    @@ "auth:production-readiness-packet" :> AuthProductionReadinessPacket
    @@ "auth:authorization-matrix-packet" :> AuthAuthorizationMatrixPacket
    @@ "rate-limit:production-readiness-packet" :> RateLimitProductionReadinessPacket
    @@ "providers:lifecycle-readiness-packet" :> ProviderLifecycleReadinessPacket
    @@ "calendar-ui:production-readiness-packet" :> CalendarUiProductionReadinessPacket
    @@ "web-app:production-readiness-packet" :> WebAppProductionReadinessPacket
    @@ "deployment:production-readiness-packet" :> ProductionDeploymentReadinessPacket
    @@ "ics:production-readiness-packet" :> IcsProductionReadinessPacket
    @@ "provider-csv:production-readiness-packet" :> ProviderCsvProductionReadinessPacket
    @@ "public-events:hosted-delivery-readiness-packet" :> PublicEventsHostedDeliveryReadinessPacket
    @@ "remote-ci:postgres-readiness-packet" :> RemoteCiPostgresReadinessPacket
    @@ "remote-ci:public-readiness-packet" :> PublicRemoteCiReadinessPacket
    @@ "repository:launch-readiness-packet" :> RepositoryLaunchReadinessPacket
    @@ "repository:settings-readiness-packet" :> RepositorySettingsReadinessPacket
    @@ "repository:clean-history-readiness-packet" :> CleanHistoryReadinessPacket
    @@ "release:generated-artifact-review-packet" :> GeneratedArtifactReviewPacket
    @@ "security:policy-contact-readiness-packet" :> SecurityPolicyContactReadinessPacket
    @@ "security:final-audit-readiness-packet" :> FinalSecurityAuditReadinessPacket
    @@ "licensing:final-audit-readiness-packet" :> FinalLicensingAuditReadinessPacket
    @@ "privacy:final-audit-readiness-packet" :> FinalPrivacyAuditReadinessPacket
    @@ "release:final-gate-readiness-packet" :> FinalReleaseGateReadinessPacket
    @@ "dependency:final-audit-readiness-packet" :> DependencyAuditReadinessPacket

-----------------------------------------------------------------------------
\* A command line is refused, or read as options and flags.

Effects ==
    [name \in {"sqlite:backup", "sqlite:restore", "sqlite:export", "sqlite:delete-workspace",
               "retention:policy", "retention:sqlite-cleanup", "retention:postgres-cleanup"} |->
        CASE name = "sqlite:backup"              -> SqliteBackupArgs
          [] name = "sqlite:restore"             -> SqliteRestoreArgs
          [] name = "sqlite:export"              -> SqliteExportArgs
          [] name = "sqlite:delete-workspace"    -> SqliteDeleteWorkspaceArgs
          [] name = "retention:policy"           -> RetentionPolicyArgs
          [] name = "retention:sqlite-cleanup"   -> RetentionSqliteCleanupArgs
          [] name = "retention:postgres-cleanup" -> RetentionPostgresCleanupArgs]

\* What is checked of several values together.
Together(name, v) ==
    /\ name = "retention:operator-packet" /\ v["--backend"] = "sqlite" => "--database" \in DOMAIN v
    /\ name = "retention:hosted-cleanup-packet" =>
           Instant[v["--window-end"]] > Instant[v["--window-start"]]

Checked(name, parsed) ==
    IF /\ parsed.ok
       /\ \A o \in DOMAIN parsed.values : Valid(o, parsed.values[o])
       /\ Together(name, parsed.values)
    THEN parsed ELSE Refused

Parse(line) ==
    LET name == line[1] words == Tail(line)
    IN  IF name = "postgres:migrate" THEN ParsePostgresMigrateArgs(words)
        ELSE IF name \in DOMAIN Effects THEN Checked(name, ParseNamedArgs(Effects[name], words))
        ELSE IF name \in DOMAIN Packets THEN Checked(name, ParseNamedArgs(Packets[name].args, words))
        ELSE Refused

-----------------------------------------------------------------------------
\* What a packet prints: values by option, and command lines.

Rendered(option, value) ==
    IF option \in Dates THEN IsoText[Instant[value]]
    ELSE IF option \in Limits THEN Numeral[value] ELSE value
\* Of the options that the line gives; a database is named only in the lines that are printed.
Shown(name, parsed) ==
    LET silent == IF "--json" \in parsed.flags THEN {"--database"} ELSE Packets[name].silent
    IN  [o \in DOMAIN parsed.values \ silent |-> Rendered(o, parsed.values[o])]

ScopeWords(v) ==
    <<"--tenant-id", v["--tenant-id"], "--workspace-id", v["--workspace-id"],
      "--user-id", v["--user-id"]>>
Given(v, option) == IF option \in DOMAIN v THEN <<option, Rendered(option, v[option])>> ELSE << >>
ScopedArgs(v) == ScopeWords(v) \o Given(v, "--as-of")
BoundWords(v) == Given(v, "--type") \o Given(v, "--source-system")
                 \o Given(v, "--max-subscriptions") \o Given(v, "--max-events")

DryRunCommand(v) ==
    (IF v["--backend"] = "sqlite" THEN <<"retention:sqlite-cleanup", "--database", v["--database"]>>
     ELSE <<"retention:postgres-cleanup">>) \o ScopedArgs(v) \o <<"--json">>
\* The confirmation repeats the time as the operator gave it.
ApplyCommandAsGiven(v) ==
    DryRunCommand(v) \o <<"--apply", "--confirm", ScopedConfirmation(v) \o Slash \o v["--as-of"]>>
ApplyCommand(v) == DryRunCommand(v) \o <<"--apply", "--confirm", TimedScopedConfirmation(v)>>
DryRunEvidenceCommand(v) ==
    <<"retention:operator-packet", "--backend", "postgres">> \o ScopedArgs(v) \o <<"--json">>
WorkerCommand(v) ==
    <<"public-events:delivery-operator-packet">> \o ScopeWords(v) \o <<"--dry-run">>
    \o BoundWords(v) \o <<"--json">>
QueueCommand(v) ==
    <<"public-events:dead-letter-queue-packet">> \o ScopedArgs(v)
    \o Given(v @@ ("--max-attempts" :> "3"), "--max-attempts")
    \o Given(v, "--type") \o Given(v, "--status") \o <<"--json">>
BoundedDryRunCommand(v) ==
    <<"public-events:delivery-operator-packet">> \o ScopedArgs(v) \o BoundWords(v) \o <<"--json">>

Printed(name, parsed) ==
    LET v == parsed.values
    IN  CASE name = "retention:operator-packet" ->
             {DryRunCommand(v)} \cup (IF "--json" \in parsed.flags THEN {ApplyCommand(v)} ELSE {})
          [] name = "retention:hosted-cleanup-packet"         -> {DryRunEvidenceCommand(v)}
          [] name = "public-events:delivery-operator-packet"  -> {WorkerCommand(v)}
          [] name = "public-events:dead-letter-queue-packet"  -> {QueueCommand(v)}
          [] name = "public-events:delivery-incident-drill-packet" -> {BoundedDryRunCommand(v)}
          [] OTHER                                            -> {}
=============================================================================
