----------------------------- MODULE Permissions -----------------------------
(***************************************************************************)
(* What the handlers of both applications ask of their caller, and how the *)
(* guards decide.  A controller is a record: per handler, what it needs,   *)
(* which is nothing (@Public), a valid access token, or a permission.      *)
(***************************************************************************)
EXTENDS Answers, Sequences, FiniteSets

Public == <<"public">>
SignedIn == <<"signed in">>
Permission(scope, action) == <<scope, action>>

\* The tokens of TokenService, all signed and of the one issuer, behind the scheme of
\* the header.
Tokens == [type : {"ac", "re"}, expired : BOOLEAN, scheme : {"Bearer", "bearer"}]
AccessToken == [type |-> "ac", expired |-> FALSE, scheme |-> "Bearer"]

\* CustomClsMiddleware decodes what follows "Bearer "; Passport takes either scheme.
ContextHasCaller(token) == token.scheme = "Bearer"

\* JwtAccessGuard: Passport rejects an expired token, the guard any other type.
AccessGuard(token) ==
    IF token.expired THEN "EXPIRED_ACCESS_TOKEN"
    ELSE IF token.type # "ac" THEN "INVALID_ACCESS_TOKEN"
    ELSE "pass"

-----------------------------------------------------------------------------
(* The user application *)

AuthController ==
    [signup |-> Public, signin |-> Public, signout |-> SignedIn, refreshToken |-> Public,
     requestPasswordReset |-> Public, verifyPasswordResetToken |-> Public,
     resetPassword |-> Public]

UserMeController ==
    [getMe |-> SignedIn, updateMe |-> SignedIn, deleteMe |-> SignedIn,
     getMyPostsOffset |-> SignedIn, getMyPostsCursor |-> SignedIn,
     getMyNotifications |-> SignedIn, readAllNotifications |-> SignedIn]

PostController ==
    [getPostsOffset |-> SignedIn, getPostsCursor |-> SignedIn, getPost |-> SignedIn,
     createPost |-> Permission("post", "write"), updatePost |-> Permission("post", "write"),
     deletePost |-> Permission("post", "delete")]

NotificationController ==
    [getNotification |-> SignedIn, readNotification |-> SignedIn, deleteNotification |-> SignedIn]

EndpointController ==
    [getEndpoints |-> SignedIn, getEndpoint |-> SignedIn,
     createEndpoint |-> Permission("monitoring", "write"),
     updateEndpoint |-> Permission("monitoring", "write"),
     deleteEndpoint |-> Permission("monitoring", "delete"),
     pauseEndpoint |-> Permission("monitoring", "write"),
     resumeEndpoint |-> Permission("monitoring", "write")]

MonitoringLogController ==
    [getLogsByEndpoint |-> SignedIn, getUptimeStats |-> SignedIn, getDashboard |-> SignedIn]

WebhookController ==
    [findAll |-> SignedIn, findOne |-> SignedIn, testDispatch |-> SignedIn, findLogs |-> SignedIn,
     create |-> Permission("webhook", "write"), update |-> Permission("webhook", "write"),
     remove |-> Permission("webhook", "write")]

-----------------------------------------------------------------------------
(* The admin application *)

AdminAuthController == [signin |-> Public, signout |-> SignedIn, refreshToken |-> Public]

AdminUserController ==
    [getUsers |-> Permission("user", "read"), getUser |-> Permission("user", "read"),
     updateUserStatus |-> Permission("user", "update"), deleteUser |-> Permission("user", "delete")]

AdminPostController ==
    [getPosts |-> Permission("post", "read"), getPost |-> Permission("post", "read"),
     updatePostStatus |-> Permission("post", "update"), deletePost |-> Permission("post", "delete")]

AdminNotificationController ==
    [createNotification |-> Permission("notification", "write"),
     getNotifications |-> Permission("notification", "read")]

AdminEndpointController ==
    [getEndpoints |-> Permission("monitoring", "read"), getEndpoint |-> Permission("monitoring", "read"),
     pauseEndpoint |-> Permission("monitoring", "update"),
     deleteEndpoint |-> Permission("monitoring", "delete")]

AdminMonitoringLogController ==
    [getLogs |-> Permission("monitoring", "read"), getSystemDashboard |-> Permission("monitoring", "read")]

AdminWebhookController ==
    [findAll |-> Permission("webhook", "read"), findLogs |-> Permission("webhook", "read")]

-----------------------------------------------------------------------------
NeedsOf(controller) == {controller[handler] : handler \in DOMAIN controller}

UserNeeds ==
    UNION {NeedsOf(AuthController), NeedsOf(UserMeController), NeedsOf(PostController),
           NeedsOf(NotificationController), NeedsOf(EndpointController),
           NeedsOf(MonitoringLogController), NeedsOf(WebhookController)}

AdminNeeds ==
    UNION {NeedsOf(AdminAuthController), NeedsOf(AdminUserController), NeedsOf(AdminPostController),
           NeedsOf(AdminNotificationController), NeedsOf(AdminEndpointController),
           NeedsOf(AdminMonitoringLogController), NeedsOf(AdminWebhookController)}

Guarded(needs) == needs \ {Public, SignedIn}

=============================================================================
