------------------------------ MODULE MCToolchain ------------------------------
(* Small projects for Toolchain.                                              *)
EXTENDS Toolchain

File(path, content) == [path |-> path, content |-> content]
Project(kind, files) == [kind |-> kind, files |-> files]

Main == File(<<"main.tf">>, {})
Site == File(<<"site.yml">>, {})
Tasks(content) == File(<<"roles", "web", "tasks">>, content)
Meta == File(<<"roles", "web", "meta">>, {})

MCProjects ==
  { Project("terraform", <<Main, File(<<"vpc.tf">>, {})>>),
    Project("terraform", <<Main, File(<<"vpc.tf">>, {"validate", "checkov"})>>),
    Project("ansible", <<Site, Tasks({}), Meta>>),
    Project("ansible", <<Site, Tasks({"unnamed", "ansible-playbook"}), Meta>>),
    Project("ansible", <<Site, File(<<"files">>, {}), File(<<"files", "motd">>, {})>>) }

MCToolboxes == {{}, {"terraform", "ansible-playbook"}, {"checkov", "ansible-lint"}}
===============================================================================
