---------------------------- MODULE MCProjectTools ----------------------------
\* One command over many layouts of a repository, one over many graphs of roles, and
\* some commands at once for a member without jarvy.toml.
EXTENDS ProjectTools, TLC

CONSTANTS root, web, src, lib, out, a, b, c, d, t1, t2, t3, p1, p2

MCDirs == {root, web, src, lib, out}
MCAbove == (root :> None) @@ (web :> root) @@ (src :> web) @@ (lib :> root) @@ (out :> None)

MCRoles == {a, b, c, d}
MCTools == {t1, t2, t3}
MCOrigins == MCRoles \cup {"root", "root edited", "web", "out", "home", "net"}

Tool(from, S) == [t \in MCTools |-> IF t \in S THEN from ELSE None]
Role(extends, tools) == [extends |-> extends, tools |-> tools]
Config(provisioner, roles, role) == [provisioner |-> provisioner, roles |-> roles, role |-> role]
Files(r, w, o) == (root :> r) @@ (web :> w) @@ (src :> None) @@ (lib :> None) @@ (out :> o)
Workspace(members, globs, exclude, inherit) ==
    [members |-> members, globs |-> globs, exclude |-> exclude, inherit |-> inherit]

------------------------------------------------------------------------------
BaseRoles == (a :> Role(<<b>>, {t3})) @@ (b :> Role(<<>>, {t1, t3})) @@ (c :> None) @@ (d :> None)

LayoutCommands ==
    [op : {"setup"}, cwd : MCDirs, file : {None, root, web, out},
     project : {None, "current", web, lib}, from : BOOLEAN, role : {None, b}]
    \cup [op : {"inspect"}, cwd : MCDirs, file : {None, root, web, out},
          project : {None}, from : {FALSE}, role : {None}]

Layouts ==
    {[files |-> Files(Config(Tool("root", {t1, t2}), BaseRoles, role), w,
                      Config(Tool("out", {t2}), None, None)),
      workspace |-> ws, personal |-> home,
      remote |-> Config(Tool("net", {t1}), None, <<b>>), edited |-> EmptyConfig,
      plan |-> "layouts"] :
        role \in {None, <<a>>},
        w \in {None, Config(Tool("web", {t1}), None, None), Config(None, None, <<b>>)},
        ws \in {None, Workspace({web}, {}, {}, {"provisioner"}),
                Workspace({web, lib}, {}, {lib}, {"roles", "role"}),
                Workspace({}, {root}, {lib}, Sections)},
        home \in {None, Config(Tool("home", {t2, t3}), None, None)}}

------------------------------------------------------------------------------
RolesOf(S, n) == UNION {[1..k -> S] : k \in 0..n}

Graphs ==
    {(a :> Role(ea, {})) @@ (b :> Role(eb, {t3})) @@ (c :> Role(ec, {t2, t3})) @@ (d :> rd) :
        ea \in RolesOf(MCRoles, 2), eb \in RolesOf(MCRoles, 2), ec \in RolesOf(MCRoles, 1),
        rd \in {None, Role(<<>>, {t1, t2, t3})}}

RoleGraphs ==
    {[files |-> Files(Config(Tool("root", {}), defs, names), None, None),
      workspace |-> None, personal |-> None, remote |-> EmptyConfig, edited |-> EmptyConfig,
      plan |-> "roles"] :
        defs \in Graphs, names \in {<<a>>, <<b, a>>}}

------------------------------------------------------------------------------
Together ==
    {[files |-> Files(Config(Tool("root", {t1, t2}), BaseRoles, <<a>>), None, None),
      workspace |-> Workspace({web, lib}, {}, {}, Sections), personal |-> None,
      remote |-> EmptyConfig, edited |-> Config(Tool("root edited", {t2}), None, None),
      plan |-> "together"]}

MCPlans ==
    [layouts |-> [commands |-> LayoutCommands, procs |-> {p1}, maxCommands |-> 1, maxEdits |-> 0],
     roles |->
        [commands |-> [op : {"setup"}, cwd : {root}, file : {None}, project : {None},
                       from : {FALSE}, role : {None}],
         procs |-> {p1}, maxCommands |-> 1, maxEdits |-> 0],
     together |->
        [commands |-> [op : {"setup"}, cwd : {root}, file : {None}, project : {web, lib},
                       from : {FALSE}, role : {None}]
                      \cup [op : {"inspect"}, cwd : {out}, file : {web}, project : {None},
                            from : {FALSE}, role : {None}],
         procs |-> {p1, p2}, maxCommands |-> 3, maxEdits |-> 1]]

MCSites == Layouts \cup RoleGraphs \cup Together
==============================================================================
