---------------------------- MODULE MCGpuDevice ----------------------------
(* Shaders, a mesh, two textures, a program, a context for one texture.    *)
EXTENDS GpuDevice

CONSTANTS shaders, mesh, field1, field2, program, context

MCItems == {shaders, mesh, field1, field2, program, context}

MCKindOf ==
    [i \in MCItems |->
        CASE i = shaders -> "Shader" [] i = mesh -> "Mesh" [] i = program -> "Pipeline"
          [] i = context -> "Context" [] i \in {field1, field2} -> "Texture"]

MCNeeds ==
    [i \in MCItems |->
        CASE i = program -> {shaders} [] i = context -> {shaders, field1} [] OTHER -> {}]
=============================================================================
