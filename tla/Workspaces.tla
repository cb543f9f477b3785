----------------------------- MODULE Workspaces -----------------------------
(***************************************************************************)
(* Who sees which page of the console, and where the console takes a user   *)
(* who must not see the page asked for.  The tables are those of the        *)
(* source; the operators are its pure functions.  A user is named by the    *)
(* role preset that gives the permissions.                                  *)
(***************************************************************************)
EXTENDS Sequences, SequencesExt

NoUser == "nobody"
NoWorkspace == "no workspace"

WorkspaceIds == {"user", "admin"}

\* The first of some workspaces; the employee's comes before the administration.
FirstWorkspace(spaces) == IF "user" \in spaces THEN "user" ELSE "admin"

LandingPage == [user |-> "digitalEmployees", admin |-> "overview"]

RolePermissions ==
    [enterprise_admin |-> {"tenant.admin"},
     implementation_operator |->
        {"users:read", "departments:read", "agents:read", "chat:read", "channels:read",
         "channels:write", "license:read", "audit:read", "system:diagnostics"},
     model_admin |-> {"models:read", "models:write", "budgets:read", "audit:read"},
     agent_admin |-> {"agents:read", "agents:write", "chat:read", "chat:write",
                      "knowledge:read", "knowledge:write", "channels:read"},
     department_leader |-> {"users:read", "departments:read", "agents:read", "chat:read",
                            "knowledge:read", "budgets:read", "analytics:read"},
     employee |-> {"agents:read", "chat:read", "chat:write", "knowledge:read"},
     audit_finance |-> {"budgets:read", "budgets:export", "audit:read", "audit:export",
                        "analytics:read"},
     newcomer |-> {}]

-----------------------------------------------------------------------------
(* The entries of the navigation. "all" and "any" are what an entry         *)
(* requires, "allIn" and "anyIn" what it requires in one workspace.         *)

Open == [user |-> {}, admin |-> {}]

Entry(id, any, spaces) ==
    [id |-> id, all |-> {}, any |-> any, allIn |-> Open, anyIn |-> Open, workspaces |-> spaces]

InAdmin(permissions) == [Open EXCEPT !.admin = permissions]

NavItems == <<
    Entry("digitalEmployees", {"agents:read", "chat:read", "chat:write"}, {"user"}),
    [Entry("chatConsole", {"audit:read", "system:diagnostics"}, {"admin"})
        EXCEPT !.allIn = InAdmin({"audit:read"}), !.anyIn = InAdmin({"agents:write"})],
    [Entry("mediaGeneration", {"agents:read", "chat:write", "agents:write"}, {"user", "admin"})
        EXCEPT !.allIn = [Open EXCEPT !.user = {"agents:read", "chat:write"}],
               !.anyIn = InAdmin({"agents:write"})],
    [Entry("knowledgeBases", {"knowledge:read", "knowledge:write"}, {"user", "admin"})
        EXCEPT !.anyIn = [user |-> {"knowledge:read", "knowledge:write"},
                          admin |-> {"knowledge:write"}]],
    [Entry("overview", {"analytics:read"}, {"admin"}) EXCEPT !.anyIn = InAdmin({"analytics:read"})],
    Entry("agents", {"agents:write"}, {"admin"}),
    Entry("agentModules", {"agents:write"}, {"admin"}),
    Entry("channels", {"channels:read", "channels:write"}, {"admin"}),
    [Entry("models", {"models:read", "models:write"}, {"admin"})
        EXCEPT !.anyIn = InAdmin({"models:write"})],
    Entry("budgets", {"budgets:read", "budgets:write"}, {"admin"}),
    Entry("auditLogs", {"audit:read"}, {"admin"}),
    Entry("users", {"users:read"}, {"admin"}),
    [Entry("departments", {}, {"admin"})
        EXCEPT !.all = {"users:read", "departments:read"},
               !.anyIn = InAdmin({"users:write", "departments:write"})],
    Entry("license", {"license:read", "license:write"}, {"admin"}),
    Entry("settings", {"system:diagnostics"}, {"admin"}) >>

PageIds == {item.id : item \in Range(NavItems)}

-----------------------------------------------------------------------------
CanAccess(user, any, all) ==
    \/ any = {} /\ all = {}
    \/ /\ user # NoUser
       /\ LET held == RolePermissions[user]
          IN \/ "tenant.admin" \in held
             \/ all \subseteq held /\ (any = {} \/ any \cap held # {})

\* In prototype mode nothing is filtered.
Permitted(item, user, proto) == proto \/ CanAccess(user, item.any, item.all)

NavItemVisibleInWorkspace(item, space, user, proto) ==
    /\ space \in item.workspaces
    /\ proto \/ CanAccess(user, item.anyIn[space], item.allIn[space])

\* The entries of the side bar, by their places; a table, so that it is computed once.
VisibleNavItems ==
    [space \in WorkspaceIds |-> [user \in DOMAIN RolePermissions \cup {NoUser} |-> [proto \in BOOLEAN |->
        {i \in DOMAIN NavItems : /\ Permitted(NavItems[i], user, proto)
                                 /\ NavItemVisibleInWorkspace(NavItems[i], space, user, proto)}]]]

\* The permitted page can be displayed in the workspace.
Displayable(page, space, user, proto) ==
    \E i \in VisibleNavItems[space][user][proto] : NavItems[i].id = page

AccessibleWorkspaceIds(user, proto) ==
    {space \in WorkspaceIds : VisibleNavItems[space][user][proto] # {}}

PreferredWorkspace(stored, user, proto) ==
    LET accessible == AccessibleWorkspaceIds(user, proto)
    IN CASE accessible = {} -> NoWorkspace
         [] stored \in accessible -> stored
         [] OTHER -> FirstWorkspace(accessible)

\* The landing page of the workspace, else its first page, else its landing
\* page even if the user does not see it.
FirstVisiblePage(space, user, proto) ==
    LET visible == VisibleNavItems[space][user][proto]
    IN IF Displayable(LandingPage[space], space, user, proto) \/ visible = {}
       THEN LandingPage[space] ELSE NavItems[Min(visible)].id

WorkspaceForPage(page, current, user, proto) ==
    LET spaces == {space \in WorkspaceIds : Displayable(page, space, user, proto)}
    IN IF current \in spaces \/ spaces = {} THEN current ELSE FirstWorkspace(spaces)

\* The trace console is replaced by the employees' chat where it is not seen.
ResolveChatNavigationPage(page, user, proto) ==
    IF /\ page = "chatConsole"
       /\ \A space \in WorkspaceIds : ~Displayable(page, space, user, proto)
       /\ Displayable("digitalEmployees", "user", user, proto)
    THEN "digitalEmployees" ELSE page
=============================================================================
